---- MODULE Spec2Model ----
(***************************************************************************)
(* Trace-driven MESI cache-coherence simulator (src/CACHE): CacheSet,      *)
(* Cache, Bus, Processor and Simulator as one state machine.  One action   *)
(* is one step of Simulator::runCycles: the bus tick that opens a cycle,   *)
(* one Processor::executeCycle, or the checks that close the cycle.        *)
(***************************************************************************)
EXTENDS Integers, Sequences, FiniteSets, TLC

VARIABLES
    config,      \* Simulator: setIndexBits, associativity, blockOffsetBits
    caches,      \* Simulator::caches : core id -> Cache (sets, isBlocked, blockedCycles, stats)
    bus,         \* Bus: busy, currentCycles, pendingTransactions, stats
    processors,  \* Simulator::processors : core id -> Processor (with its trace file)
    sim,         \* Simulator: currentCycle, simulationComplete, and the position in runCycles
    traces,      \* input: per core, the references of its trace file, in file order
    last,        \* history: the most recent Cache::read / Cache::write call and what it did
    accepted     \* history: per core, the references its cache accepted, in order

vars == <<config, caches, bus, processors, sim, traces, last, accepted>>

----------------------------------------------------------------------------
(* Program constants *)

\* Simulator.h: int numCores = 4 (main() uses the default)
numCores == 4
\* Cache::evictLine / Cache::snoop: cycles += 100 for a writeback to memory
WritebackCycles == 100
\* Bus::busOperation: cycles = 100 when memory supplies the data
MemoryCycles == 100
\* Cache::snoop, BusRdX from a MODIFIED line: cycles += 200
RdXModifiedCycles == 200
\* Cache::snoop, BusRdX from an EXCLUSIVE or SHARED line: cycles += 100
RdXCleanCycles == 100
\* Bus::busOperation: int blockSize = 32 (hard-coded for the traffic counter)
BusBlockSize == 32
\* Simulator::runUntilCompletion: MAX_CYCLES
MAX_CYCLES == 2147483647
\* Processor constructor: preloads up to 10 references
PreloadCount == 10
\* Processor::executeCycle: refills up to 5 references when fewer than 5 are queued
RefillCount == 5

(* Bounds of the model *)

\* total number of references over all cores' trace files
MaxRefs == 3

\* the references the trace files of the eviction runs hold in all
MaxEvictRefs == 4

\* the references core 0's trace file holds in the replacement runs
MaxSoloRefs == 4

\* the references each of the two trace files holds in the sharing runs
MaxShareRefs == 2

\* the lines core 0's trace file holds in the runs with malformed lines
MaxLines == 4

\* the references core 0's trace file holds in the allocation runs
MaxAllocRefs == 4

\* the references core 0's trace file holds in the runs over several geometries
MaxGeometryRefs == 2

Cores == 0 .. (numCores - 1)

\* the byte addresses traces may reference: 0x00 and 0x40, two blocks of one
\* set in every configuration checked
Addrs == {0, 64}

----------------------------------------------------------------------------
(* Arithmetic helpers *)

RECURSIVE Pow2(_)
Pow2(n) == IF n = 0 THEN 1 ELSE 2 * Pow2(n - 1)

SetMin(S) == CHOOSE x \in S : \A y \in S : x <= y
SetMax(S) == CHOOSE x \in S : \A y \in S : x >= y

\* F applied to the value of v, v being evaluated once (a local variable of the code)
Bind(v, F(_)) == CHOOSE y \in {F(x) : x \in {v}} : TRUE

----------------------------------------------------------------------------
(* Cache geometry: Cache::Cache, getTag, getSetIndex *)

numSets == Pow2(config.setIndexBits)
blockSize == Pow2(config.blockOffsetBits)
Ways == 0 .. (config.associativity - 1)

\* getTag shifting by the set index bits only
getTag_keepsOffset(address) == address \div Pow2(config.setIndexBits)

getTag(address) == address \div Pow2(config.setIndexBits + config.blockOffsetBits)

\* getSetIndex masking the address without shifting the block offset out
getSetIndex_noShift(address) == address % Pow2(config.setIndexBits)

getSetIndex(address) == (address \div Pow2(config.blockOffsetBits)) % Pow2(config.setIndexBits)

\* Cache::allocateLine: (tag << (s + b)) | (setIndex << b)
victimAddressOf(tag, setIndex) ==
    tag * Pow2(config.setIndexBits + config.blockOffsetBits)
        + setIndex * Pow2(config.blockOffsetBits)

----------------------------------------------------------------------------
(* CacheLine and CacheSet *)

\* isValid taking every line for valid
isValid_always(line) == TRUE

isValid(line) == line.state # "INVALID"

\* findLine looking at the first line of the set only
findLine_firstLineOnly(set, tag) ==
    IF isValid(set.lines[0]) /\ set.lines[0].tag = tag THEN 0 ELSE -1

\* CacheSet::findLine: first valid line with the tag, or -1
findLine(set, tag) ==
    LET hits == {i \in DOMAIN set.lines : isValid(set.lines[i]) /\ set.lines[i].tag = tag}
    IN  IF hits = {} THEN -1 ELSE SetMin(hits)

\* isFull never reporting a full set
isFull_never(set) == FALSE

\* CacheSet::isFull: no INVALID line
isFull(set) == \A i \in DOMAIN set.lines : isValid(set.lines[i])

\* getLRUIndex picking the smallest counter, the most recently used line
getLRUIndex_mostRecent(set) ==
    SetMin({i \in DOMAIN set.lruCounter :
               \A j \in DOMAIN set.lruCounter : set.lruCounter[i] <= set.lruCounter[j]})

\* CacheSet::getLRUIndex: the first index holding the maximum counter
getLRUIndex(set) ==
    SetMin({i \in DOMAIN set.lruCounter :
               \A j \in DOMAIN set.lruCounter : set.lruCounter[j] <= set.lruCounter[i]})

\* CacheSet::updateLRU: every counter + 1, then the accessed one to 0
updateLRU(set, lineIndex) ==
    [set EXCEPT !.lruCounter =
        [i \in DOMAIN set.lruCounter |-> IF i = lineIndex THEN 0 ELSE set.lruCounter[i] + 1]]

\* allocateLine going by the LRU counters alone, INVALID slot or not
allocateIndex_ignoresInvalid(set) == getLRUIndex(set)

\* the slot CacheSet::allocateLine picks: first INVALID line, else the LRU line
allocateIndex(set) ==
    LET free == {i \in DOMAIN set.lines : ~isValid(set.lines[i])}
    IN  IF free # {} THEN SetMin(free) ELSE getLRUIndex(set)

\* allocateLine leaving the tag of the picked slot as it was
CacheSet_allocateLine_keepsTag(set, tag) ==
    Bind(allocateIndex(set), LAMBDA idx :
        [set |-> updateLRU(set, idx), index |-> idx])

\* CacheSet::allocateLine: set the tag of the picked slot, make it most recent
CacheSet_allocateLine(set, tag) ==
    Bind(allocateIndex(set), LAMBDA idx :
        [set   |-> updateLRU([set EXCEPT !.lines[idx].tag = tag], idx),
         index |-> idx])

----------------------------------------------------------------------------
(* Cache::snoop *)

NoEffect(state) ==
    [state |-> state, provided |-> FALSE, cycles |-> 0,
     writebacks |-> 0, traffic |-> 0, invalidations |-> 0]

\* the cycles Cache::snoop charges for sending a block: 2 per 4-byte word
transferCycles == 2 * (blockSize \div 4)

\* the BusRd case leaving an EXCLUSIVE line EXCLUSIVE
snoopBusRd_exclusiveStays(currentState) ==
    CASE currentState = "MODIFIED" ->
            [state |-> "SHARED", provided |-> TRUE, cycles |-> transferCycles + WritebackCycles,
             writebacks |-> 1, traffic |-> 2 * blockSize, invalidations |-> 0]
      [] currentState = "EXCLUSIVE" ->
            [state |-> "EXCLUSIVE", provided |-> TRUE, cycles |-> transferCycles,
             writebacks |-> 0, traffic |-> blockSize, invalidations |-> 0]
      [] currentState = "SHARED" ->
            [state |-> "SHARED", provided |-> TRUE, cycles |-> transferCycles,
             writebacks |-> 0, traffic |-> blockSize, invalidations |-> 0]
      [] OTHER -> NoEffect(currentState)

\* Cache::snoop, case BusOperation::BusRd
snoopBusRd(currentState) ==
    CASE currentState = "MODIFIED" ->
            [state |-> "SHARED", provided |-> TRUE, cycles |-> transferCycles + WritebackCycles,
             writebacks |-> 1, traffic |-> 2 * blockSize, invalidations |-> 0]
      [] currentState = "EXCLUSIVE" ->
            [state |-> "SHARED", provided |-> TRUE, cycles |-> transferCycles,
             writebacks |-> 0, traffic |-> blockSize, invalidations |-> 0]
      [] currentState = "SHARED" ->
            [state |-> "SHARED", provided |-> TRUE, cycles |-> transferCycles,
             writebacks |-> 0, traffic |-> blockSize, invalidations |-> 0]
      [] OTHER -> NoEffect(currentState)

\* the BusRdX case invalidating a SHARED line without counting the invalidation
snoopBusRdX_sharedUncounted(currentState) ==
    CASE currentState = "MODIFIED" ->
            [state |-> "INVALID", provided |-> TRUE, cycles |-> RdXModifiedCycles,
             writebacks |-> 1, traffic |-> 2 * blockSize, invalidations |-> 1]
      [] currentState = "EXCLUSIVE" ->
            [state |-> "INVALID", provided |-> TRUE, cycles |-> RdXCleanCycles,
             writebacks |-> 0, traffic |-> blockSize, invalidations |-> 1]
      [] currentState = "SHARED" ->
            [state |-> "INVALID", provided |-> TRUE, cycles |-> RdXCleanCycles,
             writebacks |-> 0, traffic |-> blockSize, invalidations |-> 0]
      [] OTHER -> NoEffect(currentState)

\* Cache::snoop, case BusOperation::BusRdX
snoopBusRdX(currentState) ==
    CASE currentState = "MODIFIED" ->
            [state |-> "INVALID", provided |-> TRUE, cycles |-> RdXModifiedCycles,
             writebacks |-> 1, traffic |-> 2 * blockSize, invalidations |-> 1]
      [] currentState \in {"EXCLUSIVE", "SHARED"} ->
            [state |-> "INVALID", provided |-> TRUE, cycles |-> RdXCleanCycles,
             writebacks |-> 0, traffic |-> blockSize, invalidations |-> 1]
      [] OTHER -> NoEffect(currentState)

\* the BusUpgr case invalidating a SHARED line without counting the invalidation
snoopBusUpgr_uncounted(currentState) ==
    CASE currentState = "SHARED" ->
            [state |-> "INVALID", provided |-> FALSE, cycles |-> 0,
             writebacks |-> 0, traffic |-> 0, invalidations |-> 0]
      [] currentState \in {"EXCLUSIVE", "MODIFIED"} ->
            [state |-> "INVALID", provided |-> TRUE, cycles |-> transferCycles,
             writebacks |-> 0, traffic |-> blockSize, invalidations |-> 1]
      [] OTHER -> NoEffect(currentState)

\* the BusUpgr case with a SHARED line sending its data like the other lines
snoopBusUpgr_sharedProvides(currentState) ==
    CASE currentState \in {"SHARED", "EXCLUSIVE", "MODIFIED"} ->
            [state |-> "INVALID", provided |-> TRUE, cycles |-> transferCycles,
             writebacks |-> 0, traffic |-> blockSize, invalidations |-> 1]
      [] OTHER -> NoEffect(currentState)

\* Cache::snoop, case BusOperation::BusUpgr
snoopBusUpgr(currentState) ==
    CASE currentState = "SHARED" ->
            [state |-> "INVALID", provided |-> FALSE, cycles |-> 0,
             writebacks |-> 0, traffic |-> 0, invalidations |-> 1]
      [] currentState \in {"EXCLUSIVE", "MODIFIED"} ->
            [state |-> "INVALID", provided |-> TRUE, cycles |-> transferCycles,
             writebacks |-> 0, traffic |-> blockSize, invalidations |-> 1]
      [] OTHER -> NoEffect(currentState)

\* the switch of Cache::snoop for a line found in currentState
snoopTransition(op, currentState) ==
    CASE op = "BusRd"   -> snoopBusRd(currentState)
      [] op = "BusRdX"  -> snoopBusRdX(currentState)
      [] op = "BusUpgr" -> snoopBusUpgr(currentState)
      [] OTHER          -> NoEffect(currentState)

\* snoop making the snooped line the most recently used of its set
snoop_touchesLRU(cache, coreId, op, address, sourceId, providedData) ==
    Bind(getSetIndex(address), LAMBDA setIndex :
    Bind(findLine(cache.sets[setIndex], getTag(address)), LAMBDA lineIndex :
        IF sourceId = coreId \/ lineIndex = -1
        THEN [cache |-> cache, providedData |-> providedData, cycles |-> 0]
        ELSE Bind(snoopTransition(op, cache.sets[setIndex].lines[lineIndex].state), LAMBDA t :
                 [cache |-> [cache EXCEPT
                        !.sets[setIndex] =
                            updateLRU([@ EXCEPT !.lines[lineIndex].state = t.state], lineIndex),
                        !.stats.writebacks = @ + t.writebacks,
                        !.stats.busTraffic = @ + t.traffic,
                        !.stats.invalidations = @ + t.invalidations],
                  providedData |-> providedData \/ t.provided,
                  cycles |-> t.cycles])))

\* snoop overwriting providedData with the conjunction, so that no peer ever
\* reports having provided the block
snoop_andProvided(cache, coreId, op, address, sourceId, providedData) ==
    Bind(getSetIndex(address), LAMBDA setIndex :
    Bind(findLine(cache.sets[setIndex], getTag(address)), LAMBDA lineIndex :
        IF sourceId = coreId \/ lineIndex = -1
        THEN [cache |-> cache, providedData |-> providedData, cycles |-> 0]
        ELSE Bind(snoopTransition(op, cache.sets[setIndex].lines[lineIndex].state), LAMBDA t :
                 [cache |-> [cache EXCEPT
                        !.sets[setIndex].lines[lineIndex].state = t.state,
                        !.stats.writebacks = @ + t.writebacks,
                        !.stats.busTraffic = @ + t.traffic,
                        !.stats.invalidations = @ + t.invalidations],
                  providedData |-> providedData /\ t.provided,
                  cycles |-> t.cycles])))

\* Cache::snoop on cache `cache` of core coreId; providedData and cycles are the
\* by-reference arguments (cycles enters as the bus's snoopCycles = 0)
snoop(cache, coreId, op, address, sourceId, providedData) ==
    Bind(getSetIndex(address), LAMBDA setIndex :
    Bind(findLine(cache.sets[setIndex], getTag(address)), LAMBDA lineIndex :
        IF sourceId = coreId \/ lineIndex = -1
        THEN [cache |-> cache, providedData |-> providedData, cycles |-> 0]
        ELSE Bind(snoopTransition(op, cache.sets[setIndex].lines[lineIndex].state), LAMBDA t :
                 [cache |-> [cache EXCEPT
                        !.sets[setIndex].lines[lineIndex].state = t.state,
                        !.stats.writebacks = @ + t.writebacks,
                        !.stats.busTraffic = @ + t.traffic,
                        !.stats.invalidations = @ + t.invalidations],
                  providedData |-> providedData \/ t.provided,
                  cycles |-> t.cycles])))

----------------------------------------------------------------------------
(* Bus *)

BusTransaction(op, addr, src) ==
    [operation |-> op, address |-> addr, sourceId |-> src, dataProvided |-> FALSE, cycles |-> 0]

\* Bus::processSnooping: caches snoop in increasing core id, the source excluded
RECURSIVE snoopFrom(_, _, _)
snoopFrom(i, cs, transaction) ==
    IF i = numCores THEN [caches |-> cs, transaction |-> transaction]
    ELSE IF i = transaction.sourceId THEN snoopFrom(i + 1, cs, transaction)
    ELSE Bind(snoop(cs[i], i, transaction.operation, transaction.address,
                    transaction.sourceId, transaction.dataProvided), LAMBDA r :
         Bind([cs EXCEPT ![i] = r.cache], LAMBDA cs1 :
         Bind([transaction EXCEPT
                  !.dataProvided = r.providedData,
                  !.cycles = IF r.cycles > 0 /\ r.providedData THEN @ + r.cycles ELSE @],
              LAMBDA t1 : snoopFrom(i + 1, cs1, t1))))

\* processSnooping starting its loop at core 1
processSnooping_skipsFirst(cs, transaction) == snoopFrom(1, cs, transaction)

processSnooping(cs, transaction) == snoopFrom(0, cs, transaction)

\* busOperation counting a read as a read-exclusive
countOperation_readAsReadX(stats, operation) ==
    CASE operation = "BusRd"   -> [stats EXCEPT !.busReadXs = @ + 1]
      [] operation = "BusRdX"  -> [stats EXCEPT !.busReadXs = @ + 1]
      [] operation = "BusUpgr" -> [stats EXCEPT !.busUpgrades = @ + 1]
      [] OTHER                 -> [stats EXCEPT !.busFlushes = @ + 1]

\* busOperation counting no upgrade
countOperation_dropsUpgrade(stats, operation) ==
    CASE operation = "BusRd"   -> [stats EXCEPT !.busReads = @ + 1]
      [] operation = "BusRdX"  -> [stats EXCEPT !.busReadXs = @ + 1]
      [] operation = "BusUpgr" -> stats
      [] OTHER                 -> [stats EXCEPT !.busFlushes = @ + 1]

\* busOperation counting an upgrade as a read-exclusive
countOperation_upgradeAsReadX(stats, operation) ==
    CASE operation = "BusRd"   -> [stats EXCEPT !.busReads = @ + 1]
      [] operation = "BusRdX"  -> [stats EXCEPT !.busReadXs = @ + 1]
      [] operation = "BusUpgr" -> [stats EXCEPT !.busReadXs = @ + 1]
      [] OTHER                 -> [stats EXCEPT !.busFlushes = @ + 1]

\* Bus::busOperation: the counter of the operation
countOperation(stats, operation) ==
    CASE operation = "BusRd"   -> [stats EXCEPT !.busReads = @ + 1]
      [] operation = "BusRdX"  -> [stats EXCEPT !.busReadXs = @ + 1]
      [] operation = "BusUpgr" -> [stats EXCEPT !.busUpgrades = @ + 1]
      [] OTHER                 -> [stats EXCEPT !.busFlushes = @ + 1]

\* the latency adding the memory fetch to what the peers charged
baseCycles_addsMemory(transaction) == transaction.cycles + MemoryCycles

\* Bus::busOperation: the cycles of the transaction, what the peers charged
\* when one provided the data, else the memory latency
baseCycles(transaction) ==
    IF transaction.dataProvided THEN transaction.cycles ELSE MemoryCycles

\* busOperation leaving the bus busy for processCycle to release
busyAfterOperation_staysBusy == TRUE

\* the value of `busy` Bus::busOperation leaves behind when it has run a transaction
busyAfterOperation == FALSE

\* Bus::busOperation on world W = [caches, bus]; dataProvided and cycles are the
\* by-reference arguments, left untouched when the transaction is queued
busOperation(W, operation, address, sourceId, dataProvided, cycles) ==
    Bind(BusTransaction(operation, address, sourceId), LAMBDA transaction :
        IF W.bus.busy
        THEN [W |-> [W EXCEPT !.bus.pendingTransactions = Append(@, transaction)],
              success |-> FALSE, dataProvided |-> dataProvided, cycles |-> cycles]
        ELSE Bind(processSnooping(W.caches, transaction), LAMBDA s :
             Bind(baseCycles(s.transaction), LAMBDA c :
             Bind(countOperation(W.bus.stats, operation), LAMBDA stats1 :
                 [W |-> [caches |-> s.caches,
                         bus |-> [W.bus EXCEPT
                                     !.busy = busyAfterOperation,
                                     !.currentCycles = c,
                                     !.completed = @ + 1,
                                     !.stats = IF s.transaction.dataProvided
                                               THEN [stats1 EXCEPT !.busTraffic = @ + BusBlockSize]
                                               ELSE stats1]],
                  success |-> TRUE,
                  dataProvided |-> s.transaction.dataProvided,
                  cycles |-> c]))))

----------------------------------------------------------------------------------------------------------------------------------------
(* Cache: eviction and allocation *)

\* Cache::getLineIndex
getLineIndex(cache, address) == findLine(cache.sets[getSetIndex(address)], getTag(address))

\* Cache::evictLine, the SHARED branch: the peers that hold the block in SHARED
sharedPeers(cs, coreId, address) ==
    {j \in Cores : /\ j # coreId
                   /\ getLineIndex(cs[j], address) # -1
                   /\ cs[j].sets[getSetIndex(address)].lines[getLineIndex(cs[j], address)].state
                          = "SHARED"}

\* evictLine promoting no peer
promotes_never(peers) == FALSE

\* evictLine promoting a peer whenever some peer shares the block
promotes_whenShared(peers) == peers # {}

\* Cache::evictLine, the SHARED branch: whether the peers' copies call for a promotion
promotes(peers) == Cardinality(peers) = 1

\* evictLine writing back every victim that is not SHARED, clean or not
evictLine_writesBackClean(cs, coreId, setIndex, victimIndex, address, cycles) ==
    Bind(cs[coreId].sets[setIndex].lines[victimIndex].state, LAMBDA state :
    Bind(sharedPeers(cs, coreId, address), LAMBDA peers :
    Bind(IF state \in {"MODIFIED", "EXCLUSIVE"}
         THEN [cs EXCEPT ![coreId].stats.writebacks = @ + 1]
         ELSE IF state = "SHARED" /\ promotes(peers)
         THEN Bind(SetMax(peers), LAMBDA p :
                  [cs EXCEPT ![p].sets[getSetIndex(address)]
                                 .lines[getLineIndex(cs[p], address)].state = "EXCLUSIVE"])
         ELSE cs, LAMBDA cs1 :
        [caches |-> [cs1 EXCEPT ![coreId].sets[setIndex].lines[victimIndex].state = "INVALID"],
         cycles |-> IF state \in {"MODIFIED", "EXCLUSIVE"}
                    THEN cycles + WritebackCycles ELSE cycles])))

\* Cache::evictLine for the line at (setIndex, victimIndex) of cache coreId, whose
\* block starts at `address`; cycles is the by-reference argument
evictLine(cs, coreId, setIndex, victimIndex, address, cycles) ==
    Bind(cs[coreId].sets[setIndex].lines[victimIndex].state, LAMBDA state :
    Bind(sharedPeers(cs, coreId, address), LAMBDA peers :
    Bind(IF state = "MODIFIED"
         THEN [cs EXCEPT ![coreId].stats.writebacks = @ + 1]
         ELSE IF state = "SHARED" /\ promotes(peers)
         THEN Bind(SetMax(peers), LAMBDA p :
                  [cs EXCEPT ![p].sets[getSetIndex(address)]
                                 .lines[getLineIndex(cs[p], address)].state = "EXCLUSIVE"])
         ELSE cs, LAMBDA cs1 :
        [caches |-> [cs1 EXCEPT ![coreId].sets[setIndex].lines[victimIndex].state = "INVALID"],
         cycles |-> IF state = "MODIFIED" THEN cycles + WritebackCycles ELSE cycles])))

\* allocateLine ignoring the bus response on a read
allocatedState_ignoresResponse(isWrite, busresponse) ==
    IF isWrite THEN "MODIFIED" ELSE "EXCLUSIVE"

\* the state Cache::allocateLine gives the new line
allocatedState(isWrite, busresponse) ==
    IF isWrite THEN "MODIFIED" ELSE IF busresponse THEN "SHARED" ELSE "EXCLUSIVE"

\* allocateLine leaving the cache blocked for the latency of the miss
blockedAfterAllocate_staysBlocked == TRUE

\* the value of isBlocked Cache::allocateLine leaves behind
blockedAfterAllocate == FALSE

\* Cache::allocateLine; cycles is the by-reference argument (the bus latency)
allocateLine(cs, coreId, address, isWrite, cycles, busresponse) ==
    Bind(getTag(address), LAMBDA tag :
    Bind(getSetIndex(address), LAMBDA setIndex :
    Bind(cs[coreId].sets[setIndex], LAMBDA set :
    Bind(getLRUIndex(set), LAMBDA victimIndex :
    Bind(isFull(set) /\ isValid(set.lines[victimIndex]), LAMBDA evicting :
    Bind(IF evicting
         THEN evictLine(cs, coreId, setIndex, victimIndex,
                        victimAddressOf(set.lines[victimIndex].tag, setIndex), cycles)
         ELSE [caches |-> cs, cycles |-> cycles], LAMBDA e :
    Bind(IF evicting THEN [e.caches EXCEPT ![coreId].stats.evictions = @ + 1]
         ELSE e.caches, LAMBDA cs1 :
    Bind(CacheSet_allocateLine(cs1[coreId].sets[setIndex], tag), LAMBDA a :
        [caches |-> [cs1 EXCEPT
                        ![coreId].sets[setIndex] =
                            [a.set EXCEPT !.lines[a.index].state =
                                              allocatedState(isWrite, busresponse)],
                        ![coreId].isBlocked = blockedAfterAllocate],
         cycles |-> e.cycles,
         lineIndex |-> a.index,
         victimState |-> IF evicting THEN set.lines[victimIndex].state ELSE "none"]))))))))

----------------------------------------------------------------------------
(* Cache::read and Cache::write *)

\* what a call did, for the history variable `last`: the path taken, the latency
\* the bus returned, that latency plus the eviction penalty, the bus's
\* dataProvided, the state of the evicted line, whether the bus ran the operation
Info(kind, busCycles, missCycles, provided, victimState, busAccepted) ==
    [kind |-> kind, busCycles |-> busCycles, missCycles |-> missCycles,
     dataProvided |-> provided, victimState |-> victimState, busAccepted |-> busAccepted]

\* the cycles Cache::read reports for a hit
readHitCycles(cycles) == 1

\* the cycles Cache::write reports for a hit that needs no bus operation
writeHitCycles(cycles) == cycles

\* the cycles Cache::read and Cache::write report for a miss: cycles += busCycles
missCycles(cycles, busCycles) == cycles + busCycles

\* Cache::read, the miss path
readMiss(W, coreId, address, cycles) ==
    Bind([W EXCEPT !.caches[coreId].stats.accesses = @ + 1,
                   !.caches[coreId].stats.readMisses = @ + 1,
                   !.caches[coreId].stats.misses = @ + 1,
                   !.caches[coreId].isBlocked = TRUE], LAMBDA W1 :
    Bind(busOperation(W1, "BusRd", address, coreId, FALSE, 0), LAMBDA b :
    Bind(allocateLine(b.W.caches, coreId, address, FALSE, b.cycles,
                      b.success /\ b.dataProvided), LAMBDA a :
        [W |-> [caches |-> [a.caches EXCEPT ![coreId].blockedCycles = @ + a.cycles - 1],
                bus |-> b.W.bus],
         success |-> TRUE, cycles |-> missCycles(cycles, a.cycles),
         info |-> Info("readMiss", b.cycles, a.cycles, b.dataProvided,
                       a.victimState, b.success)])))

\* read counting no access when it hits
read_hitUncounted(W, coreId, address, cycles) ==
    Bind(getSetIndex(address), LAMBDA setIndex :
    Bind(findLine(W.caches[coreId].sets[setIndex], getTag(address)), LAMBDA lineIndex :
        IF W.caches[coreId].isBlocked
        THEN [W |-> W, success |-> FALSE, cycles |-> cycles,
              info |-> Info("refused", 0, 0, FALSE, "none", FALSE)]
        ELSE IF lineIndex # -1
        THEN [W |-> [W EXCEPT !.caches[coreId].sets[setIndex] = updateLRU(@, lineIndex)],
              success |-> TRUE, cycles |-> readHitCycles(cycles),
              info |-> Info("readHit", 0, 0, FALSE, "none", FALSE)]
        ELSE readMiss(W, coreId, address, cycles)))

\* Cache::read(address, cycles) on core coreId
read(W, coreId, address, cycles) ==
    Bind(getSetIndex(address), LAMBDA setIndex :
    Bind(findLine(W.caches[coreId].sets[setIndex], getTag(address)), LAMBDA lineIndex :
        IF W.caches[coreId].isBlocked
        THEN [W |-> W, success |-> FALSE, cycles |-> cycles,
              info |-> Info("refused", 0, 0, FALSE, "none", FALSE)]
        ELSE IF lineIndex # -1
        THEN \* lookupAndUpdate: hit
             [W |-> [W EXCEPT !.caches[coreId].stats.accesses = @ + 1,
                              !.caches[coreId].sets[setIndex] = updateLRU(@, lineIndex)],
              success |-> TRUE, cycles |-> readHitCycles(cycles),
              info |-> Info("readHit", 0, 0, FALSE, "none", FALSE)]
        ELSE readMiss(W, coreId, address, cycles)))

\* Cache::write, the miss path
writeMiss(W, coreId, address, cycles) ==
    Bind([W EXCEPT !.caches[coreId].stats.accesses = @ + 1,
                   !.caches[coreId].stats.writeMisses = @ + 1,
                   !.caches[coreId].stats.misses = @ + 1,
                   !.caches[coreId].isBlocked = TRUE], LAMBDA W1 :
    Bind(busOperation(W1, "BusRdX", address, coreId, FALSE, 0), LAMBDA b :
    Bind(allocateLine(b.W.caches, coreId, address, TRUE, b.cycles,
                      b.success /\ b.dataProvided), LAMBDA a :
        [W |-> [caches |-> [a.caches EXCEPT ![coreId].blockedCycles =
                                IF a.cycles > 0 THEN a.cycles - 1 ELSE 0],
                bus |-> b.W.bus],
         success |-> TRUE, cycles |-> missCycles(cycles, a.cycles),
         info |-> Info("writeMiss", b.cycles, a.cycles, b.dataProvided,
                       a.victimState, b.success)])))

\* the hit path of write issuing the BusUpgr for an EXCLUSIVE line as well
writeHit_upgradesExclusive(W, coreId, address, cycles, setIndex, lineIndex) ==
    Bind(W.caches[coreId].sets[setIndex].lines[lineIndex].state, LAMBDA state :
    Bind([W EXCEPT !.caches[coreId].stats.accesses = @ + 1,
                   !.caches[coreId].sets[setIndex] = updateLRU(@, lineIndex)], LAMBDA W1 :
        IF state \in {"SHARED", "EXCLUSIVE"}
        THEN Bind(busOperation(W1, "BusUpgr", address, coreId, FALSE, 0), LAMBDA b :
                 [W |-> [b.W EXCEPT !.caches[coreId].sets[setIndex]
                                        .lines[lineIndex].state = "MODIFIED"],
                  success |-> TRUE, cycles |-> missCycles(cycles, b.cycles),
                  info |-> Info(IF state = "SHARED" THEN "writeHitS" ELSE "writeHitE",
                                b.cycles, b.cycles, b.dataProvided, "none", b.success)])
        ELSE [W |-> [W1 EXCEPT !.caches[coreId].sets[setIndex]
                                   .lines[lineIndex].state = "MODIFIED"],
              success |-> TRUE, cycles |-> writeHitCycles(cycles),
              info |-> Info("writeHitM", 0, 0, FALSE, "none", FALSE)]))

\* Cache::write, the hit path, for the line at (setIndex, lineIndex)
writeHit(W, coreId, address, cycles, setIndex, lineIndex) ==
    Bind(W.caches[coreId].sets[setIndex].lines[lineIndex].state, LAMBDA state :
    Bind([W EXCEPT !.caches[coreId].stats.accesses = @ + 1,
                   !.caches[coreId].sets[setIndex] = updateLRU(@, lineIndex)], LAMBDA W1 :
        IF state = "SHARED"
        THEN Bind(busOperation(W1, "BusUpgr", address, coreId, FALSE, 0), LAMBDA b :
                 [W |-> [b.W EXCEPT !.caches[coreId].sets[setIndex]
                                        .lines[lineIndex].state = "MODIFIED"],
                  success |-> TRUE, cycles |-> missCycles(cycles, b.cycles),
                  info |-> Info("writeHitS", b.cycles, b.cycles, b.dataProvided,
                                "none", b.success)])
        ELSE [W |-> [W1 EXCEPT !.caches[coreId].sets[setIndex]
                                   .lines[lineIndex].state = "MODIFIED"],
              success |-> TRUE, cycles |-> writeHitCycles(cycles),
              info |-> Info(IF state = "EXCLUSIVE" THEN "writeHitE" ELSE "writeHitM",
                            0, 0, FALSE, "none", FALSE)]))

\* Cache::write(address, cycles) on core coreId
write(W, coreId, address, cycles) ==
    Bind(getSetIndex(address), LAMBDA setIndex :
    Bind(findLine(W.caches[coreId].sets[setIndex], getTag(address)), LAMBDA lineIndex :
        IF W.caches[coreId].isBlocked
        THEN [W |-> W, success |-> FALSE, cycles |-> cycles,
              info |-> Info("refused", 0, 0, FALSE, "none", FALSE)]
        ELSE IF lineIndex # -1
        THEN writeHit(W, coreId, address, cycles, setIndex, lineIndex)
        ELSE writeMiss(W, coreId, address, cycles)))

----------------
(* Bus::processCycle, Bus::reset *)

\* Bus::processNextPendingTransaction
processNextPendingTransaction(W) ==
    IF W.bus.pendingTransactions = <<>> THEN W
    ELSE Bind(Head(W.bus.pendingTransactions), LAMBDA t :
         Bind([W EXCEPT !.bus.pendingTransactions = Tail(@)], LAMBDA W1 :
         Bind(busOperation(W1, t.operation, t.address, t.sourceId, FALSE, 0), LAMBDA r :
             IF r.success THEN r.W
             ELSE [r.W EXCEPT !.bus.pendingTransactions = Append(@, t)])))

\* Bus::processCycle
processCycle(W) ==
    IF W.bus.busy /\ W.bus.currentCycles > 0
    THEN IF W.bus.currentCycles - 1 = 0
         THEN Bind([W EXCEPT !.bus.currentCycles = 0, !.bus.busy = FALSE],
                   LAMBDA W1 : processNextPendingTransaction(W1))
         ELSE [W EXCEPT !.bus.currentCycles = @ - 1]
    ELSE IF ~W.bus.busy /\ W.bus.pendingTransactions # <<>>
    THEN processNextPendingTransaction(W)
    ELSE W

\* a reset that also clears the statistics of the bus
reset_clearsStatistics(b) ==
    [b EXCEPT !.busy = FALSE, !.currentCycles = 0, !.pendingTransactions = <<>>,
              !.stats = [f \in DOMAIN @ |-> 0]]

\* Bus::reset
reset(b) == [b EXCEPT !.busy = FALSE, !.currentCycles = 0, !.pendingTransactions = <<>>]

----------------------------------------------------------------------------
(* Processor *)

\* a line of a trace file: a well-formed reference, a line whose operation
\* letter is neither R nor W, or a line that does not hold two fields
RefLine(op, addr) == [kind |-> "ref", operation |-> op, address |-> addr]
BadOpLine == [kind |-> "badop"]
BlankLine == [kind |-> "blank"]

\* loadNextReference pushing the reference at the front of the queue
loadNextReference_pushesFront(p) ==
    IF p.eof \/ ~p.isOpen THEN [p |-> p, loaded |-> FALSE]
    ELSE IF p.lines = <<>>
    THEN [p |-> [p EXCEPT !.eof = TRUE,
                          !.traceComplete = @ \/ (p.pendingReferences = <<>>)],
          loaded |-> FALSE]
    ELSE IF Head(p.lines).kind = "ref"
    THEN [p |-> [p EXCEPT !.lines = Tail(@),
                          !.pendingReferences =
                              <<[operation |-> Head(p.lines).operation,
                                 address |-> Head(p.lines).address]>> \o @],
          loaded |-> TRUE]
    ELSE [p |-> [p EXCEPT !.lines = Tail(@)], loaded |-> FALSE]

\* Processor::loadNextReference
loadNextReference(p) ==
    IF p.eof \/ ~p.isOpen THEN [p |-> p, loaded |-> FALSE]
    ELSE IF p.lines = <<>>
    THEN \* getline fails at end of file
         [p |-> [p EXCEPT !.eof = TRUE,
                          !.traceComplete = @ \/ (p.pendingReferences = <<>>)],
          loaded |-> FALSE]
    ELSE IF Head(p.lines).kind = "ref"
    THEN [p |-> [p EXCEPT !.lines = Tail(@),
                          !.pendingReferences =
                              Append(@, [operation |-> Head(p.lines).operation,
                                         address |-> Head(p.lines).address])],
          loaded |-> TRUE]
    ELSE [p |-> [p EXCEPT !.lines = Tail(@)], loaded |-> FALSE]

\* for (int i = 0; i < n && loadNextReference(); i++)
RECURSIVE loadUpTo(_, _)
loadUpTo(p, n) ==
    IF n = 0 THEN p
    ELSE Bind(loadNextReference(p), LAMBDA r :
             IF r.loaded THEN Bind(r.p, LAMBDA p1 : loadUpTo(p1, n - 1)) ELSE r.p)

\* Processor::Processor on a trace file holding `lines`, then
\* Processor::resetStatistics (Simulator::initialize)
Processor(lines, isOpen) ==
    loadUpTo([isOpen |-> isOpen, eof |-> FALSE, lines |-> lines,
              pendingReferences |-> <<>>,
              totalInstructions |-> 0, readInstructions |-> 0, writeInstructions |-> 0,
              totalCycles |-> 0, idleCycles |-> 0,
              traceComplete |-> ~isOpen, blocked |-> FALSE], PreloadCount)

NoAccess ==
    [core |-> -1, operation |-> "none", address |-> 0, success |-> FALSE, cycles |-> 0,
     tick |-> 0, promoted |-> {}, info |-> Info("none", 0, 0, FALSE, "none", FALSE)]

\* the condition under which Processor::executeCycle blocks the processor
blocksProcessor(success, cycles) == success /\ cycles > 1

\* Processor::executeCycle, from the pop of the next reference on; p holds a
\* non-empty pendingReferences
executeReference(W, p, coreId) ==
    Bind(Head(p.pendingReferences), LAMBDA ref :
    Bind(IF ref.operation = "READ" THEN read(W, coreId, ref.address, 0)
         ELSE write(W, coreId, ref.address, 0), LAMBDA r :
    Bind([p EXCEPT
            !.pendingReferences = Tail(@),
            !.readInstructions =
                IF r.success /\ ref.operation = "READ" THEN @ + 1 ELSE @,
            !.writeInstructions =
                IF r.success /\ ref.operation # "READ" THEN @ + 1 ELSE @,
            !.totalInstructions = IF r.success THEN @ + 1 ELSE @,
            !.blocked = IF blocksProcessor(r.success, r.cycles) THEN TRUE ELSE @,
            !.idleCycles = IF blocksProcessor(r.success, r.cycles) THEN @ + r.cycles ELSE @],
         LAMBDA p1 :
        [W |-> r.W,
         p |-> IF Len(p1.pendingReferences) < RefillCount THEN loadUpTo(p1, RefillCount)
               ELSE p1,
         offered |-> TRUE,
         access |-> [core |-> coreId, operation |-> ref.operation, address |-> ref.address,
                     success |-> r.success, cycles |-> r.cycles, tick |-> 0,
                     promoted |-> {}, info |-> r.info]])))

\* Processor::executeCycle of core coreId on world W and processor p
executeCycle(W, p, coreId) ==
    IF p.blocked /\ W.caches[coreId].isBlocked
    THEN [W |-> W, p |-> [p EXCEPT !.totalCycles = @ + 1, !.idleCycles = @ + 1],
          offered |-> FALSE, access |-> NoAccess]
    ELSE Bind(IF p.pendingReferences = <<>>
              THEN loadNextReference([p EXCEPT !.totalCycles = @ + 1, !.blocked = FALSE])
              ELSE [p |-> [p EXCEPT !.totalCycles = @ + 1, !.blocked = FALSE],
                    loaded |-> TRUE], LAMBDA l :
             IF ~l.loaded
             THEN [W |-> W,
                   p |-> [l.p EXCEPT !.traceComplete = TRUE, !.totalCycles = @ - 1],
                   offered |-> FALSE, access |-> NoAccess]
             ELSE Bind(l.p, LAMBDA p1 : executeReference(W, p1, coreId)))

----------------------------------------------------------------------------
(* Simulator *)

\* allProcessorsComplete returning true at the first complete processor
allProcessorsComplete_any(ps) == \E i \in Cores : ps[i].traceComplete

\* Simulator::allProcessorsComplete
allProcessorsComplete(ps) == \A i \in Cores : ps[i].traceComplete

\* the condition of Simulator::checkForDeadlock
deadlockSuspected(ps, b) ==
    /\ \A i \in Cores : ~ps[i].traceComplete => ps[i].blocked
    /\ \E i \in Cores : ~ps[i].traceComplete /\ ps[i].blocked
    /\ ~b.busy

\* Simulator::resolveDeadlock
resolveDeadlock(W, ps) ==
    [caches |-> [i \in Cores |-> IF ps[i].blocked
                                 THEN [W.caches[i] EXCEPT !.isBlocked = FALSE]
                                 ELSE W.caches[i]],
     bus |-> reset(W.bus)]

\* the loop over the processors ending at the first processor whose trace is
\* complete instead of passing over it
nextProcessor_stopsAtComplete(ps, i) ==
    IF i + 1 >= numCores \/ ps[i + 1].traceComplete THEN numCores ELSE i + 1

\* the loop over the processors running from the last processor to the first
nextProcessor_descending(ps, i) ==
    LET rest == {j \in Cores : (i = -1 \/ j < i) /\ ~ps[j].traceComplete}
    IN  IF rest = {} THEN numCores ELSE SetMax(rest)

\* the loop of Simulator::runCycles over the processors: the first processor
\* after position i whose trace is not complete, or numCores when there is none
nextProcessor(ps, i) ==
    LET rest == {j \in Cores : j > i /\ ~ps[j].traceComplete}
    IN  IF rest = {} THEN numCores ELSE SetMin(rest)

\* Simulator::runCycles, top of the loop body: currentCycle++, bus->processCycle()
BeginCycle ==
    /\ sim.pc = -1
    /\ ~sim.simulationComplete
    /\ sim.currentCycle < MAX_CYCLES
    /\ \E W \in {processCycle([caches |-> caches, bus |-> bus])} :
           /\ caches' = W.caches
           /\ bus' = W.bus
    /\ sim' = [sim EXCEPT !.currentCycle = @ + 1, !.pc = nextProcessor(processors, -1)]
    /\ UNCHANGED <<config, processors, traces, last, accepted>>

\* history: the lines that are SHARED in caches cs and EXCLUSIVE with the same
\* tag in caches cs1, each as the core and the address of its block
promotedBetween(cs, cs1) ==
    {[core |-> t[1], address |-> victimAddressOf(cs[t[1]].sets[t[2]].lines[t[3]].tag, t[2])] :
        t \in {u \in Cores \X (0 .. (numSets - 1)) \X Ways :
                  /\ cs[u[1]].sets[u[2]].lines[u[3]].state = "SHARED"
                  /\ cs1[u[1]].sets[u[2]].lines[u[3]].state = "EXCLUSIVE"
                  /\ cs1[u[1]].sets[u[2]].lines[u[3]].tag
                         = cs[u[1]].sets[u[2]].lines[u[3]].tag}}

\* ExecuteCycle charging the latency of a bus operation that a peer answered
\* to the idle cycles of every other processor as well
ExecuteCycle_idlesSnoopers(i) ==
    /\ sim.pc = i
    /\ ~processors[i].traceComplete
    /\ \E r \in {executeCycle([caches |-> caches, bus |-> bus], processors[i], i)} :
           /\ caches' = r.W.caches
           /\ bus' = r.W.bus
           /\ processors' =
                  [j \in Cores |->
                      IF j = i THEN r.p
                      ELSE IF r.offered /\ r.access.info.dataProvided
                      THEN [processors[j] EXCEPT !.idleCycles = @ + r.access.info.busCycles]
                      ELSE processors[j]]
           /\ last' = IF r.offered
                      THEN [r.access EXCEPT !.tick = sim.currentCycle,
                                            !.promoted = promotedBetween(caches, r.W.caches)]
                      ELSE last
           /\ accepted' = IF r.offered /\ r.access.success
                          THEN [accepted EXCEPT ![i] =
                                   Append(@, [operation |-> r.access.operation,
                                              address |-> r.access.address])]
                          ELSE accepted
    /\ sim' = [sim EXCEPT !.pc = nextProcessor(processors, i)]
    /\ UNCHANGED <<config, traces>>

\* Simulator::runCycles, processor->executeCycle() for the processor at sim.pc
ExecuteCycle(i) ==
    /\ sim.pc = i
    /\ ~processors[i].traceComplete
    /\ \E r \in {executeCycle([caches |-> caches, bus |-> bus], processors[i], i)} :
           /\ caches' = r.W.caches
           /\ bus' = r.W.bus
           /\ processors' = [processors EXCEPT ![i] = r.p]
           /\ last' = IF r.offered
                      THEN [r.access EXCEPT !.tick = sim.currentCycle,
                                            !.promoted = promotedBetween(caches, r.W.caches)]
                      ELSE last
           /\ accepted' = IF r.offered /\ r.access.success
                          THEN [accepted EXCEPT ![i] =
                                   Append(@, [operation |-> r.access.operation,
                                              address |-> r.access.address])]
                          ELSE accepted
    /\ sim' = [sim EXCEPT !.pc = nextProcessor(processors, i)]
    /\ UNCHANGED <<config, traces>>

\* Simulator::runCycles, bottom of the loop body: completion, checkForDeadlock,
\* the cycle limit
EndCycle ==
    /\ sim.pc = numCores
    /\ \E resolve \in {deadlockSuspected(processors, bus)} :
       \E W \in {IF resolve
                 THEN resolveDeadlock([caches |-> caches, bus |-> bus], processors)
                 ELSE [caches |-> caches, bus |-> bus]} :
           /\ caches' = W.caches
           /\ bus' = W.bus
           /\ sim' = [sim EXCEPT
                  !.simulationComplete = allProcessorsComplete(processors)
                                            \/ sim.currentCycle > MAX_CYCLES,
                  !.resolved = resolve,
                  !.pc = -1]
    /\ UNCHANGED <<config, processors, traces, last, accepted>>

----------------------------------------------------------------------------
(* Initial states: the configuration and the trace files are the inputs *)

Operations == {"READ", "WRITE"}
Refs == {RefLine(op, a) : op \in Operations, a \in Addrs}

\* the sequences over S of length at most n
RECURSIVE SeqsUpTo(_, _)
SeqsUpTo(S, n) ==
    IF n = 0 THEN {<<>>}
    ELSE Bind(SeqsUpTo(S, n - 1), LAMBDA shorter :
             shorter \cup {Append(t, x) : t \in {u \in shorter : Len(u) = n - 1}, x \in S})

\* the assignments of a trace to each of k cores holding at most `budget` lines in all
RECURSIVE TraceFiles(_, _, _)
TraceFiles(S, k, budget) ==
    IF k = 0 THEN {<<>>}
    ELSE UNION {{<<t>> \o rest : rest \in TraceFiles(S, k - 1, budget - Len(t))}
                   : t \in SeqsUpTo(S, budget)}

\* Cache::Cache: every line INVALID with tag 0, every LRU counter 0
EmptyCache(cfg) ==
    [sets |-> [x \in 0 .. (Pow2(cfg.setIndexBits) - 1) |->
                  [lines |-> [w \in 0 .. (cfg.associativity - 1) |->
                                 [tag |-> 0, state |-> "INVALID"]],
                   lruCounter |-> [w \in 0 .. (cfg.associativity - 1) |-> 0]]],
     isBlocked |-> FALSE,
     blockedCycles |-> 0,
     stats |-> [accesses |-> 0, misses |-> 0, readMisses |-> 0, writeMisses |-> 0,
                evictions |-> 0, writebacks |-> 0, invalidations |-> 0, busTraffic |-> 0]]

\* Bus::Bus; `completed` is history: the calls of Bus::busOperation that ran
\* their transaction
EmptyBus ==
    [busy |-> FALSE, currentCycles |-> 0, pendingTransactions |-> <<>>,
     completed |-> 0,
     stats |-> [busReads |-> 0, busReadXs |-> 0, busUpgrades |-> 0, busFlushes |-> 0,
                busTraffic |-> 0]]

\* the well-formed references of the lines of a trace file, in order
RECURSIVE wellFormed(_)
wellFormed(lines) ==
    IF lines = <<>> THEN <<>>
    ELSE IF Head(lines).kind = "ref"
    THEN <<[operation |-> Head(lines).operation, address |-> Head(lines).address]>>
            \o wellFormed(Tail(lines))
    ELSE wellFormed(Tail(lines))

\* Simulator::Simulator and Simulator::initialize for configuration cfg and trace files tf
InitWith(cfg, tf) ==
    /\ config = cfg
    /\ caches = [i \in Cores |-> EmptyCache(cfg)]
    /\ bus = EmptyBus
    /\ processors = [i \in Cores |-> Processor(tf[i + 1], TRUE)]
    /\ sim = [currentCycle |-> 0, simulationComplete |-> FALSE, resolved |-> FALSE, pc |-> -1]
    /\ traces = [i \in Cores |-> wellFormed(tf[i + 1])]
    /\ last = NoAccess
    /\ accepted = [i \in Cores |-> <<>>]

\* the configurations checked, both with 2 sets and 32-byte blocks (main
\* rejects parameters that are not positive): the 2-way cache, which holds both
\* blocks of Addrs in one set, and the direct-mapped cache, in which they
\* compete for one line
Configs ==
    {[setIndexBits |-> 1, associativity |-> 2, blockOffsetBits |-> 5],
     [setIndexBits |-> 1, associativity |-> 1, blockOffsetBits |-> 5]}

Init == \E cfg \in Configs : \E tf \in TraceFiles(Refs, numCores, MaxRefs) : InitWith(cfg, tf)

Next ==
    \/ BeginCycle
    \/ \E i \in Cores : ExecuteCycle(i)
    \/ EndCycle

Spec == Init /\ [][Next]_vars

\* the runs in which evictions meet sharing: the direct-mapped cache, in which
\* the two blocks of Addrs compete for one line, the last core's trace empty
\* and the other cores' traces holding at most MaxEvictRefs references in all
EvictConfig == [setIndexBits |-> 1, associativity |-> 1, blockOffsetBits |-> 5]

InitEvict ==
    \E tf \in TraceFiles(Refs, numCores - 1, MaxEvictRefs) : InitWith(EvictConfig, tf \o <<<<>>>>)

SpecEvict == InitEvict /\ [][Next]_vars

\* the runs in which replacement happens: the 2-way cache and three blocks of
\* one set (0x00, 0x40, 0x80); core 0's trace holds at most MaxSoloRefs
\* references, core 1's trace is empty or one access of block 0x00, which core
\* 0's cache snoops in the first tick, and the other traces are empty
SoloConfig == [setIndexBits |-> 1, associativity |-> 2, blockOffsetBits |-> 5]
SoloAddrs == {0, 64, 128}
SoloRefs == {RefLine(op, a) : op \in Operations, a \in SoloAddrs}
PeerTraces == {<<>>, <<RefLine("READ", 0)>>, <<RefLine("WRITE", 0)>>}

InitSolo ==
    \E t \in SeqsUpTo(SoloRefs, MaxSoloRefs) : \E u \in PeerTraces :
        InitWith(SoloConfig, <<t, u, <<>>, <<>>>>)

SpecSolo == InitSolo /\ [][Next]_vars

\* the runs in which two cores share one block: the 2-way cache with 32-byte
\* blocks, the traces of cores 0 and 1 holding at most MaxShareRefs references
\* each to the words 0x00 and 0x04 of one block, the other traces empty
ShareConfig == [setIndexBits |-> 1, associativity |-> 2, blockOffsetBits |-> 5]
ShareAddrs == {0, 4}
ShareRefs == {RefLine(op, a) : op \in Operations, a \in ShareAddrs}

InitShare ==
    \E t, u \in SeqsUpTo(ShareRefs, MaxShareRefs) : InitWith(ShareConfig, <<t, u, <<>>, <<>>>>)

SpecShare == InitShare /\ [][Next]_vars

\* the runs on a trace file with malformed lines: core 0's file holds at most
\* MaxLines lines, each a read of 0x00, a write of 0x40, a line with an unknown
\* operation letter (a comment such as "# note" is one) or an empty line
LinesConfig == [setIndexBits |-> 1, associativity |-> 2, blockOffsetBits |-> 5]
TraceLines == {RefLine("READ", 0), RefLine("WRITE", 64), BadOpLine, BlankLine}

InitLines ==
    \E t \in SeqsUpTo(TraceLines, MaxLines) : InitWith(LinesConfig, <<t, <<>>, <<>>, <<>>>>)

SpecLines == InitLines /\ [][Next]_vars

\* the allocation runs: the 2-way cache, core 0 reading at most MaxAllocRefs
\* times among three blocks of one set while core 1 writes at most twice to
\* two of them, so that core 0's set has no, one (either) or two INVALID slots
\* when it misses
AllocConfig == [setIndexBits |-> 1, associativity |-> 2, blockOffsetBits |-> 5]
AllocReads == {RefLine("READ", a) : a \in {0, 64, 128}}
AllocWrites == {RefLine("WRITE", a) : a \in {0, 64}}

InitAlloc ==
    \E t \in SeqsUpTo(AllocReads, MaxAllocRefs) : \E u \in SeqsUpTo(AllocWrites, 2) :
        InitWith(AllocConfig, <<t, u, <<>>, <<>>>>)

SpecAlloc == InitAlloc /\ [][Next]_vars

\* the runs over several geometries: direct-mapped caches with 1 or 2 set
\* index bits and 1 or 2 block offset bits, core 0 reading at most
\* MaxGeometryRefs times among addresses of different blocks, two of them
\* near the top of the range TLC's integers can hold
TopAddress == Pow2(30) + (Pow2(30) - 1)
GeometryConfigs ==
    {[setIndexBits |-> s, associativity |-> 1, blockOffsetBits |-> b] :
        s \in {1, 2}, b \in {1, 2}}
GeometryReads == {RefLine("READ", a) : a \in {5, 21, TopAddress - 16, TopAddress}}

InitGeometry ==
    \E cfg \in GeometryConfigs : \E t \in SeqsUpTo(GeometryReads, MaxGeometryRefs) :
        InitWith(cfg, <<t, <<>>, <<>>, <<>>>>)

SpecGeometry == InitGeometry /\ [][Next]_vars

\* Simulator::runUntilCompletion keeps calling runCycles(1), and runCycles runs
\* its loop body to the end: a step that can be taken is taken
FairSpec == Spec /\ WF_vars(Next)

----------------------------------------------------------------------------
(* Properties *)

States == {"MODIFIED", "EXCLUSIVE", "SHARED", "INVALID"}
ValidStates == {"MODIFIED", "EXCLUSIVE", "SHARED"}

\* cache `cache` has a line of the block of `address` in one of `states`, read
\* off the lines themselves
holdsIn(cache, address, states) ==
    \E w \in Ways :
        /\ cache.sets[getSetIndex(address)].lines[w].tag = getTag(address)
        /\ cache.sets[getSetIndex(address)].lines[w].state \in states

\* the cores whose cache holds the block of `address` in one of `states`
holders(cs, address, states) == {j \in Cores : holdsIn(cs[j], address, states)}

\* C1 (coherence, P1 and P2): whenever a cache holds a block in MODIFIED or in
\* EXCLUSIVE, every other cache holds that block in no valid state; this holds
\* in every state between two operations, hence after every tick and after
\* every completed read or write.
C1_Coherence ==
    \A a \in Addrs : \A i \in Cores :
        holdsIn(caches[i], a, {"MODIFIED", "EXCLUSIVE"})
            => \A j \in Cores \ {i} : ~holdsIn(caches[j], a, ValidStates)

\* a write miss has just taken the block from a peer: the writer holds it in
\* MODIFIED and a peer that held it has been invalidated
C1_Witness ==
    /\ last.info.kind = "writeMiss"
    /\ last.info.dataProvided
    /\ holdsIn(caches[last.core], last.address, {"MODIFIED"})
    /\ \E j \in Cores \ {last.core} : caches[j].stats.invalidations > 0

\* C2 (tag uniqueness, P3): within one set of one cache no two valid lines
\* carry the same tag (an INVALID line may keep a stale tag).
C2_TagUniqueness ==
    \A i \in Cores : \A x \in 0 .. (numSets - 1) : \A w1, w2 \in Ways :
        LET lines == caches[i].sets[x].lines
        IN  (w1 # w2 /\ isValid(lines[w1]) /\ isValid(lines[w2]))
                => lines[w1].tag # lines[w2].tag

\* a set with two valid lines, one of them hit again after both were filled
C2_Witness ==
    \E i \in Cores : \E x \in 0 .. (numSets - 1) : \E w1, w2 \in Ways :
        /\ w1 # w2
        /\ isValid(caches[i].sets[x].lines[w1])
        /\ isValid(caches[i].sets[x].lines[w2])
        /\ last.core = i
        /\ last.info.kind \in {"readHit", "writeHitM", "writeHitE", "writeHitS"}

\* the step is a call of Cache::read or Cache::write that the cache accepted;
\* last' describes it, the unprimed variables are the state it was made in
AccessStep ==
    /\ last'.core \in Cores
    /\ caches'[last'.core].stats.accesses = caches[last'.core].stats.accesses + 1

\* the MESI state of every line of every cache
lineStates(cs) ==
    [i \in Cores |-> [x \in 0 .. (numSets - 1) |->
        [w \in Ways |-> cs[i].sets[x].lines[w].state]]]

\* the miss counters of every cache
missCounters(cs) ==
    [i \in Cores |-> <<cs[i].stats.misses, cs[i].stats.readMisses, cs[i].stats.writeMisses>>]

\* C3 (write postcondition): once a write to an address has been accepted, the
\* writer's line of the block is MODIFIED and no other cache has a valid line of
\* the block; this holds from the return of the write until the next access.
C3_WritePostcondition ==
    (last.operation = "WRITE" /\ last.success)
        => /\ holdsIn(caches[last.core], last.address, {"MODIFIED"})
           /\ holders(caches, last.address, ValidStates) = {last.core}
           /\ \A j \in Cores \ {last.core} : getLineIndex(caches[j], last.address) = -1

\* a write miss has just invalidated the copies of two peers
C3_Witness ==
    /\ last.operation = "WRITE"
    /\ last.success
    /\ last.info.kind = "writeMiss"
    /\ Cardinality({j \in Cores \ {last.core} : caches[j].stats.invalidations = 1}) = 2

\* C4 (read-miss state): a read that misses leaves the reader's line SHARED
\* when some other cache held a valid copy of the block, EXCLUSIVE when none
\* did; every peer that held the block holds it in SHARED afterwards.
C4_ReadMissState ==
    [][(/\ AccessStep
        /\ last'.operation = "READ"
        /\ ~holdsIn(caches[last'.core], last'.address, ValidStates))
       => LET c == last'.core
              a == last'.address
              peers == holders(caches, a, ValidStates) \ {c}
          IN  /\ peers # {} => holdsIn(caches'[c], a, {"SHARED"})
              /\ peers = {} => holdsIn(caches'[c], a, {"EXCLUSIVE"})
              /\ holders(caches', a, ValidStates) = peers \cup {c}
              /\ \A j \in peers :
                    /\ holdsIn(caches'[j], a, {"SHARED"})
                    /\ ~holdsIn(caches'[j], a, {"MODIFIED", "EXCLUSIVE"})]_vars

\* a read miss served by peers: the block is SHARED in three caches, one of
\* which held it in MODIFIED before
C4_Witness ==
    /\ last.info.kind = "readMiss"
    /\ last.info.dataProvided
    /\ Cardinality(holders(caches, last.address, {"SHARED"})) = 3
    /\ \E j \in Cores \ {last.core} : caches[j].stats.writebacks = 1

\* the step is a read by a core of the address that core read in the latest
\* access of the whole system: two reads of one address by one core with no
\* other cache access in between, the step being the second
SecondReadStep ==
    /\ AccessStep
    /\ last.operation = "READ"
    /\ last.success
    /\ last'.operation = "READ"
    /\ last'.core = last.core
    /\ last'.address = last.address

\* C5 as stated (read idempotence): of two consecutive reads of one address by
\* one core the first is the pair's one read miss and one bus operation, the
\* second is a hit, and no line changes its MESI state over the second read.
C5_ExactlyOneMiss ==
    [][SecondReadStep
       => /\ last.info.kind = "readMiss"
          /\ last'.info.kind = "readHit"
          /\ bus'.stats = bus.stats
          /\ missCounters(caches') = missCounters(caches)
          /\ lineStates(caches') = lineStates(caches)]_vars

\* C5 (read idempotence): the second of two consecutive reads of one address
\* by one core is a hit that causes no miss and no bus operation, so the pair
\* causes at most one read miss and one bus operation, namely the first read's
\* when it missed; no line changes its MESI state over the second read.
C5_ReadIdempotence ==
    [][SecondReadStep
       => /\ last.info.kind \in {"readMiss", "readHit"}
          /\ last.info.kind = "readMiss" <=> last.info.busAccepted
          /\ last'.info.kind = "readHit"
          /\ ~last'.info.busAccepted
          /\ bus'.stats = bus.stats
          /\ bus'.pendingTransactions = bus.pendingTransactions
          /\ missCounters(caches') = missCounters(caches)
          /\ lineStates(caches') = lineStates(caches)]_vars

\* one core has read one address three times and nothing else has happened:
\* the first read missed, the second and the third hit
C5_Witness ==
    /\ last.info.kind = "readHit"
    /\ Len(accepted[last.core]) = 3
    /\ \A k \in 1 .. 3 : accepted[last.core][k] = [operation |-> "READ", address |-> last.address]
    /\ \A j \in Cores \ {last.core} : caches[j].stats.accesses = 0
    /\ caches[last.core].stats.readMisses = 1
    /\ bus.stats.busReads = 1

\* C6 (upgrade path): a write that hits a SHARED line issues exactly one
\* BusUpgr and no BusRd or BusRdX, counts no miss, invalidates every peer that
\* held the block in SHARED without that peer providing data, grows each such
\* peer's invalidation counter by exactly 1, and leaves the writer MODIFIED.
C6_UpgradePath ==
    [][(/\ AccessStep
        /\ last'.operation = "WRITE"
        /\ holdsIn(caches[last'.core], last'.address, {"SHARED"}))
       => LET c == last'.core
              a == last'.address
              sharers == holders(caches, a, {"SHARED"}) \ {c}
          IN  /\ bus'.stats.busUpgrades = bus.stats.busUpgrades + 1
              /\ bus'.stats.busReads = bus.stats.busReads
              /\ bus'.stats.busReadXs = bus.stats.busReadXs
              /\ missCounters(caches') = missCounters(caches)
              /\ ~last'.info.dataProvided
              /\ \A j \in sharers :
                    /\ ~holdsIn(caches'[j], a, ValidStates)
                    /\ caches'[j].stats.invalidations = caches[j].stats.invalidations + 1
                    /\ caches'[j].stats.busTraffic = caches[j].stats.busTraffic
                    /\ caches'[j].stats.writebacks = caches[j].stats.writebacks
              /\ \A j \in Cores \ (sharers \cup {c}) :
                    caches'[j].stats.invalidations = caches[j].stats.invalidations
              /\ holdsIn(caches'[c], a, {"MODIFIED"})]_vars

\* a write has just hit a SHARED line and invalidated the one peer sharing it
C6_Witness ==
    /\ last.info.kind = "writeHitS"
    /\ bus.stats.busUpgrades = 1
    /\ holdsIn(caches[last.core], last.address, {"MODIFIED"})
    /\ \E j \in Cores \ {last.core} :
          /\ caches[j].stats.invalidations = 1
          /\ holdsIn(caches[j], last.address, {"INVALID"})

\* C7 (silent write hits): a write that hits an EXCLUSIVE or a MODIFIED line
\* issues no bus operation, leaves every bus counter and every other cache
\* unchanged, and leaves the line MODIFIED.
C7_SilentWriteHit ==
    [][(/\ AccessStep
        /\ last'.operation = "WRITE"
        /\ holdsIn(caches[last'.core], last'.address, {"EXCLUSIVE", "MODIFIED"}))
       => /\ bus' = bus
          /\ ~last'.info.busAccepted
          /\ \A j \in Cores \ {last'.core} : caches'[j] = caches[j]
          /\ holdsIn(caches'[last'.core], last'.address, {"MODIFIED"})
          /\ ~holdsIn(caches'[last'.core], last'.address, {"EXCLUSIVE", "SHARED"})]_vars

\* a write has just hit the EXCLUSIVE line its core's read miss had brought in
C7_Witness ==
    /\ last.info.kind = "writeHitE"
    /\ holdsIn(caches[last.core], last.address, {"MODIFIED"})
    /\ bus.stats.busReads = 1
    /\ bus.stats.busReadXs = 0
    /\ bus.stats.busUpgrades = 0

\* C8 as stated (returned latency): an accepted call reports cycles = 1 for a
\* read hit and for a write hit in MODIFIED or EXCLUSIVE, and cycles = 1 +
\* busCycles for a read miss, a write miss and a write hit in SHARED, busCycles
\* being the latency of the bus with the eviction's writeback penalty.
C8_ReturnedLatency ==
    last.success
        => /\ last.info.kind \in {"readHit", "writeHitM", "writeHitE"} => last.cycles = 1
           /\ last.info.kind \in {"readMiss", "writeMiss", "writeHitS"}
                  => last.cycles = 1 + last.info.missCycles

\* C9 as stated (blocking duration): after a miss whose bus latency is
\* busCycles, the cache's isBlocking() is true during the busCycles - 1 ticks
\* that follow the tick of the miss.
C9_BlockingDuration ==
    (/\ last.success
     /\ last.info.kind \in {"readMiss", "writeMiss"}
     /\ sim.currentCycle > last.tick
     /\ sim.currentCycle <= last.tick + last.info.busCycles - 1)
        => caches[last.core].isBlocked

\* the references of the lines of a trace file
refsOf(lines) ==
    [k \in 1 .. Len(lines) |-> [operation |-> lines[k].operation, address |-> lines[k].address]]

RECURSIVE SumBelow(_, _)
SumBelow(f, n) == IF n = 0 THEN 0 ELSE f[n - 1] + SumBelow(f, n - 1)

\* the state is one between two ticks of Simulator::runCycles
AfterTick == sim.pc = -1

\* C11 (instruction accounting, P4): the sum over the cores of totalInstructions
\* equals the sum of the caches' access counters, and for each core
\* totalInstructions = readInstructions + writeInstructions; this holds after
\* every tick, and after every call of executeCycle within a tick.
C11_InstructionAccounting ==
    /\ SumBelow([i \in Cores |-> processors[i].totalInstructions], numCores)
           = SumBelow([i \in Cores |-> caches[i].stats.accesses], numCores)
    /\ \A i \in Cores :
          processors[i].totalInstructions
              = processors[i].readInstructions + processors[i].writeInstructions

\* a tick has ended with three instructions executed by two cores or more,
\* reads and writes, a read hit among them
C11_Witness ==
    /\ AfterTick
    /\ SumBelow([i \in Cores |-> processors[i].totalInstructions], numCores) = 3
    /\ SumBelow([i \in Cores |-> caches[i].stats.misses], numCores) = 2
    /\ \E i, j \in Cores :
          /\ i # j
          /\ processors[i].readInstructions = 2
          /\ processors[j].writeInstructions = 1

\* the sum of the four operation counters of the bus
busOperationCount(b) ==
    b.stats.busReads + b.stats.busReadXs + b.stats.busUpgrades + b.stats.busFlushes

\* C12 (bus operation accounting, P5): busReads + busReadXs + busUpgrades +
\* busFlushes equals the number of calls of Bus::busOperation that ran their
\* transaction since initialisation; a call made while the bus is busy is
\* enqueued, is not accepted and changes none of the four counters (no
\* reachable call finds the bus busy, so the queue stays empty); this holds
\* after every tick and within every tick.
C12_BusOperationAccounting ==
    /\ busOperationCount(bus) = bus.completed
    /\ bus.pendingTransactions = <<>>
    /\ ~bus.busy
    /\ \A op \in {"BusRd", "BusRdX", "BusUpgr"} : \A a \in Addrs : \A i \in Cores :
          LET r == busOperation([caches |-> caches, bus |-> [bus EXCEPT !.busy = TRUE]],
                                op, a, i, FALSE, 0)
          IN  /\ ~r.success
              /\ r.W.bus.stats = bus.stats
              /\ r.W.bus.completed = bus.completed
              /\ Len(r.W.bus.pendingTransactions) = 1

\* a tick has ended with a BusRd, a BusRdX and a BusUpgr run
C12_Witness ==
    /\ AfterTick
    /\ bus.completed = 3
    /\ bus.stats.busReads = 1
    /\ bus.stats.busReadXs = 1
    /\ bus.stats.busUpgrades = 1

\* C13 (termination): with finite well-formed traces runUntilCompletion
\* eventually sets simulationComplete; after every tick simulationComplete is
\* set exactly when every processor reports its trace complete; when it is
\* set every processor has executed every reference of its trace; and no step
\* is taken from a state in which it is set.
C13_Termination ==
    /\ <>sim.simulationComplete
    /\ [](sim.simulationComplete => allProcessorsComplete(processors))
    /\ []((AfterTick /\ sim.currentCycle > 0)
             => (sim.simulationComplete <=> allProcessorsComplete(processors)))
    /\ [](sim.simulationComplete
             => \A i \in Cores :
                   /\ accepted[i] = traces[i]
                   /\ processors[i].totalInstructions = Len(traces[i])
                   /\ processors[i].pendingReferences = <<>>)
    /\ [][~sim.simulationComplete]_vars

\* the simulation has completed in its third tick, two cores having executed
\* traces of different lengths
C13_Witness ==
    /\ sim.simulationComplete
    /\ sim.currentCycle = 3
    /\ \E i, j \in Cores :
          /\ Len(accepted[i]) = 2
          /\ Len(accepted[j]) = 1

\* the block of an address: the address of its first byte
blockOf(address) == address - (address % blockSize)

\* C14 (tick ordering): the step that starts a tick runs Bus::processCycle and
\* no processor; within a tick the processors whose trace is not complete run
\* one by one in strictly increasing core id, none skipped; so two accesses of
\* one tick are made in increasing core id, the later one on the state the
\* earlier one left: a read of a block that a lower core wrote in the same
\* tick is served by that core's copy.
C14_TickOrdering ==
    [][/\ sim'.currentCycle # sim.currentCycle
          => /\ sim.pc = -1
             /\ sim'.currentCycle = sim.currentCycle + 1
             /\ processors' = processors
             /\ accepted' = accepted
             /\ [caches |-> caches', bus |-> bus']
                    = processCycle([caches |-> caches, bus |-> bus])
       /\ processors' # processors
          => /\ sim.pc \in Cores
             /\ sim'.pc > sim.pc
             /\ \A j \in Cores : j # sim.pc => processors'[j] = processors[j]
             /\ \A j \in Cores : (sim.pc < j /\ j < sim'.pc) => processors[j].traceComplete
             /\ \A j \in Cores : (j < sim.pc /\ ~processors[j].traceComplete)
                    => processors[j].totalCycles = sim.currentCycle
       /\ (AccessStep /\ last.core \in Cores /\ last'.tick = last.tick)
          => /\ last'.core > last.core
             /\ (/\ blockOf(last'.address) = blockOf(last.address)
                 /\ last.operation = "WRITE"
                 /\ last'.operation = "READ")
                => (last'.info.kind = "readMiss" /\ last'.info.dataProvided)]_vars

\* in the first tick core 0 has written a block and a higher core has then
\* read it, served by core 0's copy, which the read left SHARED
C14_Witness ==
    /\ sim.currentCycle = 1
    /\ last.tick = 1
    /\ last.core > 0
    /\ last.info.kind = "readMiss"
    /\ last.info.dataProvided
    /\ accepted[0] = <<[operation |-> "WRITE", address |-> last.address]>>
    /\ holdsIn(caches[0], last.address, {"SHARED"})
    /\ caches[0].stats.writebacks = 1

\* the lines cache c loses in the step, each as the address of its block and
\* the state it was in; in a step that is an access by c they are the victims
\* of Cache::evictLine
evictedBy(c) ==
    {[address |-> victimAddressOf(caches[c].sets[t[1]].lines[t[2]].tag, t[1]),
      state |-> caches[c].sets[t[1]].lines[t[2]].state] :
        t \in {u \in (0 .. (numSets - 1)) \X Ways :
                  /\ isValid(caches[c].sets[u[1]].lines[u[2]])
                  /\ ~holdsIn(caches'[c],
                              victimAddressOf(caches[c].sets[u[1]].lines[u[2]].tag, u[1]),
                              ValidStates)}}

\* C15 (silent upgrade): when an access evicts a SHARED victim and exactly one
\* other cache holds the victim's block in SHARED, that peer's line becomes
\* EXCLUSIVE, the bus counts the operation of the miss and no other, and the
\* access is charged the bus latency and nothing more; when no peer or two
\* peers or more hold it in SHARED, no peer's state of the block changes; a
\* write by the promoted peer to the block, made as the next access, is a hit
\* that issues no bus operation.
C15_SilentUpgrade ==
    [][/\ AccessStep
          => \A e \in evictedBy(last'.core) :
                e.state = "SHARED"
                   => LET c == last'.core
                          peers == holders(caches, e.address, {"SHARED"}) \ {c}
                      IN  /\ Cardinality(peers) = 1
                             => /\ \A j \in peers :
                                      /\ holdsIn(caches'[j], e.address, {"EXCLUSIVE"})
                                      /\ ~holdsIn(caches'[j], e.address, {"SHARED", "MODIFIED"})
                                /\ last'.promoted
                                      = {[core |-> j, address |-> e.address] : j \in peers}
                                /\ busOperationCount(bus') = busOperationCount(bus) + 1
                                /\ last'.info.missCycles = last'.info.busCycles
                          /\ Cardinality(peers) # 1
                             => /\ last'.promoted = {}
                                /\ \A j \in Cores \ {c} : \A st \in ValidStates :
                                      holdsIn(caches'[j], e.address, {st})
                                          <=> holdsIn(caches[j], e.address, {st})
       /\ (/\ AccessStep
           /\ last'.operation = "WRITE"
           /\ [core |-> last'.core, address |-> blockOf(last'.address)] \in last.promoted)
          => /\ last'.info.kind = "writeHitE"
             /\ ~last'.info.busAccepted
             /\ bus' = bus
             /\ holdsIn(caches'[last'.core], last'.address, {"MODIFIED"})]_vars

\* the peer that an eviction promoted has written the block as the next
\* access, silently: two bus reads and the bus operation of the evicting miss
\* are all the bus has run
C15_Witness ==
    /\ last.info.kind = "writeHitE"
    /\ holdsIn(caches[last.core], last.address, {"MODIFIED"})
    /\ \E c \in Cores \ {last.core} :
          /\ caches[c].stats.evictions = 1
          /\ ~holdsIn(caches[c], last.address, ValidStates)
          /\ Len(accepted[c]) = 2
          /\ blockOf(accepted[c][1].address) = blockOf(last.address)
          /\ accepted[c][1].operation = "READ"
    /\ accepted[last.core]
          = <<[operation |-> "READ", address |-> last.address],
              [operation |-> "WRITE", address |-> last.address]>>
    /\ bus.completed = 3

\* core c alone has accessed the caches, with writes to pairwise distinct blocks
cleanWrites(c) ==
    /\ \A j \in Cores \ {c} : traces[j] = <<>>
    /\ \A k \in 1 .. Len(accepted[c]) : accepted[c][k].operation = "WRITE"
    /\ \A k, m \in 1 .. Len(accepted[c]) :
          k # m => blockOf(accepted[c][k].address) # blockOf(accepted[c][m].address)

\* of the writes core c has made, those that found their set full: as many
\* earlier writes went to the set as it has ways
foundFull(c) ==
    {k \in 1 .. Len(accepted[c]) :
        Cardinality({m \in 1 .. (k - 1) :
                        getSetIndex(accepted[c][m].address) = getSetIndex(accepted[c][k].address)})
            >= config.associativity}

\* C16 (write cleanliness): when one core has made N writes to N pairwise
\* distinct blocks that were in no cache, there have been exactly N write misses
\* and N BusRdX, no other miss or bus operation, in particular no BusUpgr, and
\* as many evictions as writes that found their set full.
C16_WriteCleanliness ==
    \A c \in Cores :
        cleanWrites(c)
            => /\ caches[c].stats.writeMisses = Len(accepted[c])
               /\ caches[c].stats.misses = Len(accepted[c])
               /\ caches[c].stats.readMisses = 0
               /\ bus.stats.busReadXs = Len(accepted[c])
               /\ bus.stats.busUpgrades = 0
               /\ bus.stats.busReads = 0
               /\ bus.stats.busFlushes = 0
               /\ caches[c].stats.evictions = Cardinality(foundFull(c))

\* core 0 alone has written three distinct blocks of one set of its 2-way
\* cache; the third write found the set full
C16_Witness ==
    /\ cleanWrites(0)
    /\ Len(accepted[0]) = 3
    /\ foundFull(0) = {3}
    /\ caches[0].stats.evictions = 1
    /\ sim.simulationComplete

\* the invalidations counted by all caches
totalInvalidations(cs) == SumBelow([i \in Cores |-> cs[i].stats.invalidations], numCores)

\* C17 (false-sharing cost): a write to a block whose latest access, the
\* latest of the whole system, was a write by another core is a miss or an
\* upgrade, whose bus operation the bus runs, never a silent hit, and it
\* raises the invalidations counted by all caches by exactly one.
C17_FalseSharingCost ==
    [][(/\ AccessStep
        /\ last'.operation = "WRITE"
        /\ last.operation = "WRITE"
        /\ last.success
        /\ last.core # last'.core
        /\ blockOf(last.address) = blockOf(last'.address))
       => /\ last'.info.kind \in {"writeMiss", "writeHitS"}
          /\ last'.info.busAccepted
          /\ busOperationCount(bus') = busOperationCount(bus) + 1
          /\ totalInvalidations(caches') = totalInvalidations(caches) + 1]_vars

\* cores 0 and 1 have written the words 0x00 and 0x04 of one block in turn,
\* core 0 twice and core 1 once in between
C17_Witness ==
    /\ accepted[0] = <<[operation |-> "WRITE", address |-> 0],
                       [operation |-> "WRITE", address |-> 0]>>
    /\ accepted[1] = <<[operation |-> "WRITE", address |-> 4]>>
    /\ last.core = 0
    /\ last.info.busAccepted
    /\ totalInvalidations(caches) = 2

\* the scenario Core 0 W 0x00; Core 1 W 0x04; Core 0 W 0x00; Core 1 W 0x04 on
\* empty caches with s = 1, E = 2, b = 5 has run to its end
falseSharingScenarioDone ==
    /\ config = [setIndexBits |-> 1, associativity |-> 2, blockOffsetBits |-> 5]
    /\ traces[0] = <<[operation |-> "WRITE", address |-> 0],
                     [operation |-> "WRITE", address |-> 0]>>
    /\ traces[1] = <<[operation |-> "WRITE", address |-> 4],
                     [operation |-> "WRITE", address |-> 4]>>
    /\ \A j \in Cores \ {0, 1} : traces[j] = <<>>
    /\ sim.simulationComplete

\* C18 as stated (false-sharing scenario counters): the scenario ends with 3
\* invalidations in all, busReadXs = 2 and busUpgrades = 2.
C18_TwoUpgrades ==
    falseSharingScenarioDone
        => /\ totalInvalidations(caches) = 3
           /\ bus.stats.busReadXs = 2
           /\ bus.stats.busUpgrades = 2

\* C18 (false-sharing scenario counters): the scenario ends with 3
\* invalidations in all, busReadXs = 4 and busUpgrades = 0: each of the four
\* writes finds no valid line in its cache and is a write miss.
C18_ScenarioCounters ==
    falseSharingScenarioDone
        => /\ totalInvalidations(caches) = 3
           /\ bus.stats.busReadXs = 4
           /\ bus.stats.busUpgrades = 0
           /\ bus.stats.busReads = 0
           /\ caches[0].stats.writeMisses = 2
           /\ caches[1].stats.writeMisses = 2

\* the scenario has run to its end, core 1 holding the block in MODIFIED
C18_Witness ==
    /\ falseSharingScenarioDone
    /\ accepted[0] = traces[0]
    /\ accepted[1] = traces[1]
    /\ holdsIn(caches[1], 4, {"MODIFIED"})
    /\ ~holdsIn(caches[0], 0, ValidStates)

\* the position in core c's accepted accesses of its latest access to the
\* block of the address, 0 when it made none
lastAccessTo(c, address) ==
    SetMax({0} \cup {k \in 1 .. Len(accepted[c]) :
                        blockOf(accepted[c][k].address) = blockOf(address)})

\* the block addresses of the valid lines of a set of core c's cache
blocksIn(cs, c, setIndex) ==
    {victimAddressOf(cs[c].sets[setIndex].lines[w].tag, setIndex) :
        w \in {v \in Ways : isValid(cs[c].sets[setIndex].lines[v])}}

\* the LRU counters of the valid lines of every full set are pairwise distinct
distinctCounters(cs) ==
    \A c \in Cores : \A setIndex \in 0 .. (numSets - 1) :
        isFull(cs[c].sets[setIndex])
            => \A v, w \in Ways :
                  v # w => cs[c].sets[setIndex].lruCounter[v]
                              # cs[c].sets[setIndex].lruCounter[w]

\* C19 (true LRU replacement): a miss that allocates into a set with no
\* INVALID slot evicts exactly one line, the valid line of the set whose
\* latest access by the owning core (hit or allocation, snoops not counted)
\* is the oldest, and the other lines of the set stay; the LRU counters of
\* the valid lines of a full set are pairwise distinct.
C19_TrueLRU ==
    [][/\ distinctCounters(caches)
       /\ distinctCounters(caches')
       /\ (/\ AccessStep
           /\ last'.info.kind \in {"readMiss", "writeMiss"}
           /\ isFull(caches[last'.core].sets[getSetIndex(last'.address)]))
          => LET c == last'.core
                 setIndex == getSetIndex(last'.address)
                 before == blocksIn(caches, c, setIndex)
             IN  \E victim \in before :
                    /\ \A other \in before \ {victim} :
                          lastAccessTo(c, victim) < lastAccessTo(c, other)
                    /\ {e.address : e \in evictedBy(c)} = {victim}
                    /\ blocksIn(caches', c, setIndex)
                          = (before \ {victim}) \cup {blockOf(last'.address)}]_vars

\* core 0 read blocks 0x00 and 0x40 into its 2-way set, read 0x00 again and
\* then missed on 0x80: the set holds 0x00 and 0x80, the less recently used
\* 0x40 has left although it was allocated after 0x00
C19_Witness ==
    /\ config.associativity = 2
    /\ Len(accepted[0]) = 4
    /\ accepted[0][1].address = 0
    /\ accepted[0][2].address = 64
    /\ accepted[0][3].address = 0
    /\ accepted[0][4].address = 128
    /\ last.core = 0
    /\ last.info.kind \in {"readMiss", "writeMiss"}
    /\ blocksIn(caches, 0, 0) = {0, 128}
    /\ caches[0].stats.evictions = 1

\* the step at the bottom of a tick in which Simulator::checkForDeadlock
\* called resolveDeadlock
ResolveStep == sim.pc = numCores /\ sim'.pc = -1 /\ sim'.resolved

\* no processor issues a reference on the next tick unless the recovery acts:
\* every processor whose trace is not complete is blocked on a blocked cache,
\* the case in which Processor::executeCycle idles
stuck ==
    \A i \in Cores :
        ~processors[i].traceComplete => processors[i].blocked /\ caches[i].isBlocked

\* C20 (deadlock recovery is a last resort): resolveDeadlock is invoked only
\* in a stuck state: every processor whose trace is not complete is blocked
\* and would stay idle on the next tick without the recovery, and the bus is
\* idle with no pending transaction.
C20_LastResort ==
    [][ResolveStep
          => /\ stuck
             /\ ~bus.busy
             /\ bus.pendingTransactions = <<>>]_vars

\* C21 (malformed trace lines are skipped): on a trace of well-formed
\* references interleaved with malformed and empty lines the processor
\* executes the well-formed references in order, and when it reports its trace
\* complete every line has been consumed and every well-formed reference has
\* been executed.
C21_MalformedSkipped ==
    \A i \in Cores :
        /\ Len(accepted[i]) <= Len(traces[i])
        /\ accepted[i] = SubSeq(traces[i], 1, Len(accepted[i]))
        /\ processors[i].traceComplete
              => /\ processors[i].lines = <<>>
                 /\ accepted[i] = traces[i]

\* the cycle and instruction counters of a processor
counters(p) ==
    <<p.idleCycles, p.totalCycles, p.totalInstructions, p.readInstructions,
      p.writeInstructions>>

\* C22 (idle-cycle attribution): the idle cycles, total cycles and instruction
\* counters of a processor change only in its own executeCycle; an access of
\* core i, with the snoops, downgrades, invalidations and promotions its bus
\* operation causes in the other caches, leaves the counters of every other
\* core as they were.
C22_IdleAttribution ==
    [][/\ \A j \in Cores :
             counters(processors'[j]) # counters(processors[j])
                => sim.pc = j /\ ~processors[j].traceComplete
       /\ AccessStep
             => \A j \in Cores \ {last'.core} :
                   counters(processors'[j]) = counters(processors[j])]_vars

\* core 1's write, answered by core 0's cache, has invalidated core 0's line;
\* core 0's idle cycles are the 100 of its own miss
C22_Witness ==
    /\ last.core = 1
    /\ last.operation = "WRITE"
    /\ last.info.dataProvided
    /\ last.info.busCycles > 0
    /\ caches[0].stats.invalidations = 1
    /\ processors[0].totalInstructions = 1
    /\ processors[0].idleCycles = MemoryCycles
    /\ processors[1].idleCycles = last.info.missCycles

\* C23 (BusRd snoop transitions): on the BusRd of a read miss a peer holding
\* the block in MODIFIED or EXCLUSIVE moves to SHARED and a peer holding it in
\* SHARED stays SHARED; each such peer sets providedData; a MODIFIED peer
\* counts one writeback and no other peer counts any; no peer's invalidation
\* counter changes.
C23_BusRdSnoop ==
    [][(AccessStep /\ last'.info.kind = "readMiss")
          => \A j \in Cores \ {last'.core} :
                LET a == last'.address
                    r == snoop(caches[j], j, "BusRd", a, last'.core, FALSE)
                IN  /\ holdsIn(caches[j], a, ValidStates)
                          => /\ holdsIn(caches'[j], a, {"SHARED"})
                             /\ holdsIn(r.cache, a, {"SHARED"})
                             /\ r.providedData
                             /\ last'.info.dataProvided
                    /\ caches'[j].stats.writebacks
                          = caches[j].stats.writebacks
                               + (IF holdsIn(caches[j], a, {"MODIFIED"}) THEN 1 ELSE 0)
                    /\ caches'[j].stats.invalidations = caches[j].stats.invalidations]_vars

\* a read miss has been answered by a peer that held the block in MODIFIED:
\* the peer has counted its writeback and both hold the block in SHARED
C23_Witness ==
    /\ last.info.kind = "readMiss"
    /\ last.info.dataProvided
    /\ holdsIn(caches[last.core], last.address, {"SHARED"})
    /\ \E j \in Cores \ {last.core} :
          /\ holdsIn(caches[j], last.address, {"SHARED"})
          /\ caches[j].stats.writebacks = 1
          /\ caches[j].stats.writeMisses = 1
          /\ caches[j].stats.invalidations = 0

\* C24 (BusRdX snoop transitions): on the BusRdX of a write miss every peer
\* holding the block in MODIFIED, EXCLUSIVE or SHARED sets providedData, moves
\* to INVALID and raises its invalidation counter by exactly 1, a MODIFIED peer
\* also counting one writeback; a peer without a valid copy is left unchanged
\* by the snoop and its invalidation counter does not move.
C24_BusRdXSnoop ==
    [][(AccessStep /\ last'.info.kind = "writeMiss")
          => \A j \in Cores \ {last'.core} :
                LET a == last'.address
                    r == snoop(caches[j], j, "BusRdX", a, last'.core, FALSE)
                IN  IF holdsIn(caches[j], a, ValidStates)
                    THEN /\ r.providedData
                         /\ last'.info.dataProvided
                         /\ ~holdsIn(r.cache, a, ValidStates)
                         /\ ~holdsIn(caches'[j], a, ValidStates)
                         /\ caches'[j].stats.invalidations
                               = caches[j].stats.invalidations + 1
                         /\ caches'[j].stats.writebacks
                               = caches[j].stats.writebacks
                                    + (IF holdsIn(caches[j], a, {"MODIFIED"}) THEN 1 ELSE 0)
                    ELSE /\ r.cache = caches[j]
                         /\ ~r.providedData
                         /\ caches'[j].stats = caches[j].stats]_vars

\* cores 0 and 1 read a block in the first tick and core 2 then wrote it: both
\* readers have been invalidated once, core 3 not at all
C24_Witness ==
    /\ last.core = 2
    /\ last.tick = 1
    /\ last.info.kind = "writeMiss"
    /\ last.info.dataProvided
    /\ caches[0].stats.invalidations = 1
    /\ caches[1].stats.invalidations = 1
    /\ caches[3].stats.invalidations = 0
    /\ ~holdsIn(caches[0], last.address, ValidStates)
    /\ ~holdsIn(caches[1], last.address, ValidStates)
    /\ holdsIn(caches[2], last.address, {"MODIFIED"})

\* the bus operation an access of the given kind issues
busOpOf(kind) ==
    CASE kind = "readMiss"  -> "BusRd"
      [] kind = "writeMiss" -> "BusRdX"
      [] kind = "writeHitS" -> "BusUpgr"
      [] OTHER              -> "none"

\* C25 (snoop latency): every data-providing snoop, for BusRd and for BusRdX
\* alike, contributes exactly 2 x (blockSize / 4) cycles, plus exactly 100
\* when the snooped line was MODIFIED; a snoop that finds no matching valid
\* line contributes 0 cycles.
C25_SnoopLatency ==
    [][(AccessStep /\ last'.info.kind \in {"readMiss", "writeMiss"})
          => \A j \in Cores \ {last'.core} :
                LET a == last'.address
                    r == snoop(caches[j], j, busOpOf(last'.info.kind), a, last'.core, FALSE)
                IN  r.cycles
                       = IF holdsIn(caches[j], a, ValidStates)
                         THEN 2 * (blockSize \div 4)
                                 + (IF holdsIn(caches[j], a, {"MODIFIED"}) THEN 100 ELSE 0)
                         ELSE 0]_vars

\* what the snoop of each peer of the latest access answered, computed on the
\* caches as they were before the access; the snoops of one transaction act on
\* different caches and do not depend on each other
snoopAnswers ==
    [j \in Cores |->
        snoop(caches[j], j, busOpOf(last'.info.kind), last'.address, last'.core, FALSE)]

\* C26 (bus transaction latency): the cycles busOperation returns are the sum
\* of the snoop cycles of the peers that provided data when at least one did,
\* and exactly 100 when none did, as for every BusUpgr answered only by SHARED
\* peers; the dataProvided it returns is the OR of the peers' flags.
C26_BusLatency ==
    [][(AccessStep /\ busOpOf(last'.info.kind) # "none")
          => LET providers == {j \in Cores \ {last'.core} : snoopAnswers[j].providedData}
             IN  /\ last'.info.busAccepted
                 /\ last'.info.dataProvided = (providers # {})
                 /\ last'.info.busCycles
                       = IF providers # {}
                         THEN SumBelow([j \in Cores |->
                                           IF j \in providers THEN snoopAnswers[j].cycles
                                           ELSE 0], numCores)
                         ELSE MemoryCycles
                 /\ bus'.currentCycles = last'.info.busCycles
                 /\ (last'.info.kind = "writeHitS"
                        /\ \A j \in Cores \ {last'.core} :
                              ~holdsIn(caches[j], last'.address, {"MODIFIED", "EXCLUSIVE"}))
                       => last'.info.busCycles = MemoryCycles]_vars

\* a read miss has been answered by two peers that held the block in SHARED:
\* its latency is the transfer cycles of both
C26_Witness ==
    /\ last.info.kind = "readMiss"
    /\ last.info.dataProvided
    /\ last.info.busCycles = 2 * transferCycles
    /\ Cardinality(holders(caches, last.address, {"SHARED"})) = 3
    /\ bus.currentCycles = 2 * transferCycles

\* C27 (bus occupancy): after busOperation has accepted a transaction with
\* latency k > 0 the bus stays busy until processCycle has been called k
\* times, that is during the tick of the access and the k - 1 ticks after it.
C27_BusOccupancy ==
    (/\ last.core \in Cores
     /\ last.info.busAccepted
     /\ last.info.busCycles > 0
     /\ sim.currentCycle - last.tick < last.info.busCycles)
        => bus.busy

\* the slot the allocation policy names for a set: the lowest INVALID slot,
\* and in a full set the lowest slot among those with the largest LRU counter
policySlot(set) ==
    LET free == {w \in Ways : set.lines[w].state = "INVALID"}
        oldest == {w \in Ways : \A v \in Ways : set.lruCounter[v] <= set.lruCounter[w]}
    IN  IF free # {} THEN SetMin(free) ELSE SetMin(oldest)

\* C28 (allocation policy): a miss puts the new tag in the lowest-index
\* INVALID slot of the set when there is one, and otherwise in the slot with
\* the largest LRU counter; that slot becomes the most recently used, each
\* other slot ageing by one; while the set has an INVALID slot no valid line
\* is overwritten or evicted.
C28_AllocationPolicy ==
    [][(AccessStep /\ last'.info.kind \in {"readMiss", "writeMiss"})
          => LET c == last'.core
                 setIndex == getSetIndex(last'.address)
                 set == caches[c].sets[setIndex]
                 set1 == caches'[c].sets[setIndex]
                 slot == policySlot(set)
                 free == {w \in Ways : set.lines[w].state = "INVALID"}
             IN  /\ set1.lines[slot].tag = getTag(last'.address)
                 /\ set1.lines[slot].state # "INVALID"
                 /\ set1.lruCounter[slot] = 0
                 /\ \A w \in Ways \ {slot} :
                       /\ set1.lruCounter[w] = set.lruCounter[w] + 1
                       /\ set1.lines[w] = set.lines[w]
                 /\ free # {}
                       => /\ evictedBy(c) = {}
                          /\ caches'[c].stats.evictions = caches[c].stats.evictions
                          /\ last'.info.victimState = "none"]_vars

\* a core of the 2-way cache lost a line to a peer's write and then missed:
\* the new block went into the freed slot, the other line stayed and nothing
\* was evicted
C28_Witness ==
    /\ config.associativity = 2
    /\ last.info.kind \in {"readMiss", "writeMiss"}
    /\ Len(accepted[last.core]) = 3
    /\ caches[last.core].stats.invalidations = 1
    /\ caches[last.core].stats.evictions = 0
    /\ \A w \in Ways : caches[last.core].sets[0].lines[w].state # "INVALID"
    /\ caches[last.core].sets[0].lruCounter[1] = 0

\* C29 (eviction accounting): a miss that finds its set full evicts the line
\* the policy names; a MODIFIED victim adds exactly 100 cycles to the miss
\* latency and raises the writeback and the eviction counter of the evicting
\* cache by 1, an EXCLUSIVE or SHARED victim adds no cycles and no writeback;
\* evictLine leaves the victim's line INVALID for the allocation that follows.
C29_EvictionAccounting ==
    [][(/\ AccessStep
        /\ last'.info.kind \in {"readMiss", "writeMiss"}
        /\ isFull(caches[last'.core].sets[getSetIndex(last'.address)]))
          => LET c == last'.core
                 setIndex == getSetIndex(last'.address)
                 set == caches[c].sets[setIndex]
                 victimIndex == policySlot(set)
                 victim == set.lines[victimIndex]
                 e == evictLine(caches, c, setIndex, victimIndex,
                                victimAddressOf(victim.tag, setIndex), 0)
                 penalty == IF victim.state = "MODIFIED" THEN 100 ELSE 0
                 written == IF victim.state = "MODIFIED" THEN 1 ELSE 0
             IN  /\ last'.info.victimState = victim.state
                 /\ last'.info.missCycles = last'.info.busCycles + penalty
                 /\ caches'[c].stats.writebacks = caches[c].stats.writebacks + written
                 /\ caches'[c].stats.evictions = caches[c].stats.evictions + 1
                 /\ e.cycles = penalty
                 /\ e.caches[c].sets[setIndex].lines[victimIndex].state = "INVALID"
                 /\ e.caches[c].sets[setIndex].lines[victimIndex].tag = victim.tag
                 /\ processors'[c].idleCycles
                       = processors[c].idleCycles + last'.info.busCycles + penalty]_vars

\* a miss has evicted a MODIFIED line: 100 cycles on top of the bus latency,
\* one writeback and one eviction counted
C29_Witness ==
    /\ last.info.kind \in {"readMiss", "writeMiss"}
    /\ last.info.victimState = "MODIFIED"
    /\ last.info.missCycles = last.info.busCycles + WritebackCycles
    /\ caches[last.core].stats.writebacks = 1
    /\ caches[last.core].stats.evictions = 1

\* the block addresses of the lines some cache holds in SHARED
sharedBlocks ==
    UNION {{victimAddressOf(caches[c].sets[x].lines[w].tag, x) :
               w \in {v \in Ways : caches[c].sets[x].lines[v].state = "SHARED"}} :
           c \in Cores, x \in 0 .. (numSets - 1)}

\* C30 (a lone clean holder is EXCLUSIVE, never SHARED): after every read or
\* write, its eviction included, a block that some cache holds in SHARED is
\* held in SHARED by at least two caches.
C30_NoLoneSharer ==
    \A a \in sharedBlocks : Cardinality(holders(caches, a, {"SHARED"})) >= 2

\* a miss has evicted a SHARED line that one peer shared: the peer now holds
\* the block in EXCLUSIVE and no cache holds it in SHARED, while another
\* block is still shared by two caches
C30_Witness ==
    /\ last.info.victimState = "SHARED"
    /\ \E pr \in last.promoted :
          /\ holdsIn(caches[pr.core], pr.address, {"EXCLUSIVE"})
          /\ holders(caches, pr.address, {"SHARED"}) = {}
    /\ sharedBlocks # {}

\* C31 (bus traffic accounting): for every bus transaction the bus traffic
\* counter grows by blockSize, 2^b bytes for the configured b, for each peer
\* whose snoop provided data, and by 0 when no peer provided data.
C31_BusTraffic ==
    [][(AccessStep /\ busOpOf(last'.info.kind) # "none")
          => LET providers == {j \in Cores \ {last'.core} : snoopAnswers[j].providedData}
             IN  bus'.stats.busTraffic
                    = bus.stats.busTraffic + blockSize * Cardinality(providers)]_vars

\* C32 (quiescent participant): once a processor reports its trace complete
\* its counters never change again and its cache makes no further access and
\* originates no bus operation; the simulation continues for the other cores,
\* each of which has executed one reference in every tick so far when the
\* tick ends; the lines of the completed core's cache are still invalidated
\* by the write misses and upgrades, and downgraded by the read misses, of
\* the other cores.
C32_QuiescentParticipant ==
    [][/\ \A j \in Cores :
             processors[j].traceComplete
                => /\ processors'[j] = processors[j]
                   /\ caches'[j].stats.accesses = caches[j].stats.accesses
                   /\ caches'[j].stats.misses = caches[j].stats.misses
                   /\ AccessStep => last'.core # j
       /\ sim.pc = numCores
             => \A j \in Cores :
                   ~processors[j].traceComplete => Len(accepted[j]) = sim.currentCycle
       /\ AccessStep
             => \A j \in Cores \ {last'.core} :
                   processors[j].traceComplete
                      => /\ last'.info.kind \in {"writeMiss", "writeHitS"}
                               => ~holdsIn(caches'[j], last'.address, ValidStates)
                         /\ last'.info.kind = "readMiss"
                               => ~holdsIn(caches'[j], last'.address,
                                           {"MODIFIED", "EXCLUSIVE"})]_vars

\* core 0 read block 0x00 in the first tick and reported its trace complete
\* in the second; core 1 then wrote the block in that tick and core 0's line
\* was invalidated, its processor counters staying as they were
C32_Witness ==
    /\ processors[0].traceComplete
    /\ accepted[0] = <<[operation |-> "READ", address |-> 0]>>
    /\ Len(accepted[1]) = 2
    /\ accepted[1][1].address = 64
    /\ last.core = 1
    /\ last.tick = 2
    /\ last.operation = "WRITE"
    /\ last.address = 0
    /\ caches[0].stats.invalidations = 1
    /\ ~holdsIn(caches[0], 0, ValidStates)
    /\ processors[0].totalInstructions = 1

\* the addresses the decomposition is compared on: the lowest 32 and the
\* highest 8 that TLC's integers can hold
AddressSample == (0 .. 31) \cup {TopAddress - d : d \in 0 .. 7}

\* C33 (address decomposition): two addresses have the same tag and the same
\* set index if and only if they agree above the b block offset bits; the
\* address rebuilt from a tag and a set index, as allocateLine rebuilds the
\* victim's, decomposes back to that tag and that set index, for the
\* addresses of the sample and for every valid line of every cache.
C33_AddressDecomposition ==
    /\ \A a1, a2 \in AddressSample :
          (getTag(a1) = getTag(a2) /\ getSetIndex(a1) = getSetIndex(a2))
             <=> (a1 \div Pow2(config.blockOffsetBits) = a2 \div Pow2(config.blockOffsetBits))
    /\ \A a \in AddressSample :
          /\ getTag(victimAddressOf(getTag(a), getSetIndex(a))) = getTag(a)
          /\ getSetIndex(victimAddressOf(getTag(a), getSetIndex(a))) = getSetIndex(a)
    /\ \A c \in Cores : \A x \in 0 .. (numSets - 1) : \A w \in Ways :
          isValid(caches[c].sets[x].lines[w])
             => /\ getTag(victimAddressOf(caches[c].sets[x].lines[w].tag, x))
                      = caches[c].sets[x].lines[w].tag
                /\ getSetIndex(victimAddressOf(caches[c].sets[x].lines[w].tag, x)) = x

\* with 2 set index bits and 2 offset bits core 0 read 0x05 and then 0x15,
\* which has the same set index and another tag: the line of 0x05 was
\* evicted under its rebuilt address and set 1 holds tag 1
C33_Witness ==
    /\ config.setIndexBits = 2
    /\ config.blockOffsetBits = 2
    /\ accepted[0] = <<[operation |-> "READ", address |-> 5],
                       [operation |-> "READ", address |-> 21]>>
    /\ caches[0].stats.evictions = 1
    /\ caches[0].sets[1].lines[0] = [tag |-> 1, state |-> "EXCLUSIVE"]
    /\ getTag(5) = 0
    /\ getSetIndex(5) = getSetIndex(21)

\* C34 (the unexpected BusUpgr branch is unreachable): whenever a cache issues
\* BusUpgr for a block no other cache holds the block in EXCLUSIVE or
\* MODIFIED, so no snoop of a BusUpgr provides data or charges cycles, and the
\* upgrade is charged the memory latency.
C34_UpgradeNeverProvides ==
    [][(AccessStep /\ last'.info.kind = "writeHitS")
          => /\ \A j \in Cores \ {last'.core} :
                   /\ ~holdsIn(caches[j], last'.address, {"EXCLUSIVE", "MODIFIED"})
                   /\ ~snoopAnswers[j].providedData
                   /\ snoopAnswers[j].cycles = 0
                   /\ caches'[j].stats.busTraffic = caches[j].stats.busTraffic
             /\ ~last'.info.dataProvided
             /\ last'.info.busCycles = MemoryCycles
             /\ bus'.stats.busTraffic = bus.stats.busTraffic]_vars

\* a write has hit a SHARED line and its BusUpgr has invalidated the copy of
\* the one peer that shared it, which provided no data
C34_Witness ==
    /\ last.info.kind = "writeHitS"
    /\ last.info.busAccepted
    /\ ~last.info.dataProvided
    /\ bus.stats.busUpgrades = 1
    /\ Cardinality({j \in Cores : caches[j].stats.invalidations = 1}) = 1
    /\ holders(caches, last.address, ValidStates) = {last.core}

\* the bus is idle and has nothing queued
busIdle(b) == ~b.busy /\ b.pendingTransactions = <<>>

runs(i) == sim.pc = i /\ sim'.pc # i

\* C36 (one reference per tick): for every processor totalCycles equals
\* totalInstructions, after every tick and between the processors of a tick;
\* every executeCycle of a processor that still has references executes
\* exactly one of them, whatever the latency of its previous access, because
\* no cache is left blocked by an access; the branch of executeCycle that
\* idles on a blocked cache is never taken.
C36_OneReferencePerTick ==
    [][/\ \A i \in Cores :
             /\ processors[i].totalCycles = processors[i].totalInstructions
             /\ processors'[i].totalCycles = processors'[i].totalInstructions
             /\ ~caches'[i].isBlocked
             /\ runs(i)
                   => /\ ~(processors[i].blocked /\ caches[i].isBlocked)
                      /\ processors'[i].idleCycles
                            = processors[i].idleCycles
                                 + (IF AccessStep /\ last'.cycles > 1 THEN last'.cycles ELSE 0)
                      /\ Len(accepted[i]) < Len(traces[i])
                            => /\ AccessStep
                               /\ last'.core = i
                               /\ last'.success
                               /\ accepted'[i]
                                     = Append(accepted[i], traces[i][Len(accepted[i]) + 1])
                               /\ processors'[i].totalCycles = processors[i].totalCycles + 1
       /\ AfterTick
             => \A i \in Cores :
                   ~processors[i].traceComplete
                      => processors[i].totalInstructions = sim.currentCycle]_vars

\* a processor that missed in the first and in the second tick, 100 cycles
\* each, has executed its third reference in the third tick
C36_Witness ==
    /\ sim.currentCycle = 3
    /\ last.tick = 3
    /\ Len(accepted[last.core]) = 3
    /\ processors[last.core].totalCycles = 3
    /\ processors[last.core].totalInstructions = 3
    /\ processors[last.core].idleCycles >= 2 * MemoryCycles
    /\ caches[last.core].stats.misses >= 2

\* the bus counters as the miss counters of the caches give them
mirrorsMisses(b, cs) ==
    /\ b.stats.busReads = SumBelow([i \in Cores |-> cs[i].stats.readMisses], numCores)
    /\ b.stats.busReadXs = SumBelow([i \in Cores |-> cs[i].stats.writeMisses], numCores)
    /\ \A i \in Cores :
          /\ cs[i].stats.misses = cs[i].stats.readMisses + cs[i].stats.writeMisses
          /\ cs[i].stats.misses <= cs[i].stats.accesses

\* C37 (bus counters mirror cache miss counters): busReads is the sum of the
\* caches' readMisses and busReadXs the sum of their writeMisses, after every
\* tick and after every access; busUpgrades, 0 at the start, grows by one
\* with each write hit that finds its line SHARED and with nothing else; each
\* cache's misses are its readMisses plus its writeMisses and never exceed
\* its accesses.
C37_CountersMirror ==
    [][/\ mirrorsMisses(bus, caches)
       /\ mirrorsMisses(bus', caches')
       /\ bus'.stats.busUpgrades
             = bus.stats.busUpgrades
                  + (IF AccessStep /\ last'.info.kind = "writeHitS" THEN 1 ELSE 0)
       /\ bus.stats.busUpgrades <= SumBelow([i \in Cores |->
                                        caches[i].stats.accesses - caches[i].stats.misses],
                                             numCores)]_vars

\* a tick has ended after two read misses and a write hit on a SHARED line
C37_Witness ==
    /\ AfterTick
    /\ bus.stats.busReads = 2
    /\ bus.stats.busReadXs = 0
    /\ bus.stats.busUpgrades = 1
    /\ SumBelow([i \in Cores |-> caches[i].stats.readMisses], numCores) = 2
    /\ SumBelow([i \in Cores |-> caches[i].stats.accesses], numCores) = 3

\* the number of valid lines of a cache
validLines(cache) ==
    Cardinality({t \in (0 .. (numSets - 1)) \X Ways : isValid(cache.sets[t[1]].lines[t[2]])})

\* C38 (line conservation): for every cache the number of valid lines equals
\* its misses minus its evictions minus its invalidations, after every tick
\* and after every access.
C38_LineConservation ==
    \A c \in Cores :
        validLines(caches[c])
           = caches[c].stats.misses - caches[c].stats.evictions
                - caches[c].stats.invalidations

\* a tick has ended with core 0's cache having missed four times, evicted one
\* line and lost one to a peer's write: two lines are valid
C38_Witness ==
    /\ AfterTick
    /\ caches[0].stats.misses = 4
    /\ caches[0].stats.evictions = 1
    /\ caches[0].stats.invalidations = 1
    /\ validLines(caches[0]) = 2

\* a cache with the MESI states of its lines and its statistics left out
frameOf(cache) ==
    [tags |-> [x \in 0 .. (numSets - 1) |-> [w \in Ways |-> cache.sets[x].lines[w].tag]],
     lru |-> [x \in 0 .. (numSets - 1) |-> cache.sets[x].lruCounter],
     isBlocked |-> cache.isBlocked,
     blockedCycles |-> cache.blockedCycles]

\* the lines of `cache` whose MESI state differs from that of the same line in
\* cache1, each as the pair of its set and its way
changedLines(cache, cache1) ==
    {t \in (0 .. (numSets - 1)) \X Ways :
        cache.sets[t[1]].lines[t[2]].state # cache1.sets[t[1]].lines[t[2]].state}

\* the frame of one call of Cache::snoop on cache j
snoopFrame(j, op, a, src) ==
    LET r == snoop(caches[j], j, op, a, src, FALSE)
        x == getSetIndex(a)
        w == findLine(caches[j].sets[x], getTag(a))
    IN  /\ frameOf(r.cache) = frameOf(caches[j])
        /\ changedLines(caches[j], r.cache) \subseteq {<<x, w>>}
        /\ (src = j \/ w = -1)
              => r.cache = caches[j] /\ ~r.providedData /\ r.cycles = 0

\* C39 (snoop frame): a snoop changes at most the MESI state of the one line
\* that holds the block, and the statistics of the snooping cache; it changes
\* no tag, no LRU counter, not the isBlocked flag and no line of another
\* block, and nothing at all when the source is the cache's own core or no
\* valid line matches. Checked for every snoop applied to the caches of every
\* state of a run, and on the peers of every access of a run.
C39_SnoopFrame ==
    [][/\ \A j, src \in Cores : \A op \in {"BusRd", "BusRdX", "BusUpgr"} : \A a \in Addrs :
             snoopFrame(j, op, a, src)
       /\ AccessStep
             => \A j \in Cores \ {last'.core} :
                   /\ frameOf(caches'[j]) = frameOf(caches[j])
                   /\ busOpOf(last'.info.kind) = "none" => caches'[j] = caches[j]
                   /\ \A t \in changedLines(caches[j], caches'[j]) :
                         \/ t = <<getSetIndex(last'.address),
                                  findLine(caches[j].sets[getSetIndex(last'.address)],
                                           getTag(last'.address))>>
                         \/ [core |-> j,
                             address |-> victimAddressOf(caches[j].sets[t[1]].lines[t[2]].tag,
                                                         t[1])] \in last'.promoted]_vars

\* core 0 read block 0x40 and core 1 then wrote it: the snoop has made core
\* 0's line INVALID and left its tag and the LRU counters of its set as the
\* read had left them
C39_Witness ==
    /\ config.associativity = 2
    /\ last.core = 1
    /\ last.info.kind = "writeMiss"
    /\ last.address = 64
    /\ caches[0].stats.invalidations = 1
    /\ caches[0].sets[0].lines[0] = [tag |-> 1, state |-> "INVALID"]
    /\ caches[0].sets[0].lruCounter[0] = 0
    /\ caches[0].sets[0].lruCounter[1] = 1
    /\ ~caches[0].isBlocked

\* the lines of every set of a cache, with their LRU counters
contents(cache) ==
    [x \in 0 .. (numSets - 1) |->
        [lines |-> cache.sets[x].lines, lruCounter |-> cache.sets[x].lruCounter]]

\* the coherence invariants of the caches: a MODIFIED or EXCLUSIVE copy is the
\* only valid copy, a valid tag occurs once in a set, a SHARED copy is not alone
coherent ==
    /\ C1_Coherence
    /\ C2_TagUniqueness
    /\ C30_NoLoneSharer

\* C40 (deadlock recovery frame): the recovery at the end of a tick changes no
\* tag, no MESI state, no LRU counter and no statistics counter of a cache, of
\* a processor or of the bus; all it does is clear the isBlocked flags of the
\* caches of blocked processors, the busy flag of the bus, its remaining
\* cycles and its pending queue, so that the coherence invariants that held
\* before the recovery hold after it.
C40_RecoveryFrame ==
    [][ResolveStep
         => /\ \A i \in Cores :
                  /\ contents(caches'[i]) = contents(caches[i])
                  /\ caches'[i].stats = caches[i].stats
                  /\ caches'[i].blockedCycles = caches[i].blockedCycles
                  /\ caches'[i].isBlocked = (caches[i].isBlocked /\ ~processors[i].blocked)
            /\ processors' = processors
            /\ bus'.stats = bus.stats
            /\ bus' = [bus EXCEPT !.busy = FALSE, !.currentCycles = 0,
                                  !.pendingTransactions = <<>>]
            /\ coherent => coherent']_vars

\* the state after a recovery that cleared the remaining cycles of the bus:
\* two cores missed on the same block in the tick, the second was served by
\* the first, and the lines and counters of that tick are still there
C40_Witness ==
    /\ AfterTick
    /\ sim.resolved
    /\ sim.currentCycle = 1
    /\ bus.currentCycles = 0
    /\ bus.stats.busReads = 2
    /\ Cardinality(holders(caches, 64, {"SHARED"})) = 2
    /\ \E i \in Cores : caches[i].stats.misses = 1 /\ processors[i].blocked

====
